---- MODULE Spec2Model ----
(***************************************************************************)
(* State-machine model of the SymSPI driver (src/src/symspi.c).            *)
(*                                                                         *)
(* Execution contexts of the driver are modelled as processes with a       *)
(* program counter each:                                                   *)
(*   "thr"  - a consumer thread calling the API (init, data_xchange,       *)
(*            default_data_update),                                        *)
(*   "isr"  - the their-flag GPIO interrupt handler,                       *)
(*   "tmr"  - the wait timeout timer handler,                              *)
(*   "spi"  - the SPI layer completion callback,                           *)
(*   "post" - the postprocessing work, "rec" - the recovery work,          *)
(* and the closing thread (variable cls) which runs symspi_close.          *)
(* A step of a context is a stretch of its code with one access to the     *)
(* shared device data that other contexts can race with (a compare-and-    *)
(* swap of the state, a read or write of the drop counter, of the latches, *)
(* of the timer, of the workqueue), together with the local work around    *)
(* it.                                                                     *)
(*                                                                         *)
(* symspi_switch_strict() first reads the closing latch and then makes the *)
(* compare-and-swap.  The latch is only ever set (by symspi_close), so the *)
(* one race between the two is: the latch is set after the read and        *)
(* before the compare-and-swap.  loc[c].stale records that for context c:  *)
(* symspi_close chooses, for every context which is about to make a        *)
(* switch, whether that context has read the latch already.                *)
(***************************************************************************)
EXTENDS Integers, Sequences, FiniteSets, TLC

(* ---------------- bounds of the exploration ---------------- *)
\* consumer API calls (data_xchange / default_data_update) per run
MaxCalls == 1
\* edges the other side makes on its flag line per run
MaxPeerEdges == 2
\* events of the environment per run: an edge of the flag of the other
\* side, an expiry of the wait timer, a failure of the SPI layer, a
\* consumer callback which returns a new xfer, halts or asks for the
\* immediate start of the next xfer
MaxEvents == 2

\* events of the environment in a run of a device of either role
MaxRoleEvents == 1
\* flag edges of the other side in a run without calls of the consumer
MaxRequestEdges == 3
\* events of the environment in a run with symspi_close()
MaxCloseEvents == 1
\* symspi_init() calls per run
MaxInits == 1
\* symspi_close() calls per run
MaxCloses == 1
\* in a run over the life of the device: symspi_init() calls,
\* symspi_close() calls, steps of symspi_init() which fail
MaxLifeInits == 3
MaxLifeCloses == 2
MaxInitFailures == 1
\* and events of the environment, flag edges of the other side among them
MaxLifeEvents == 1
\* in a run of one consumer call after another: calls, events
MaxSeqCalls == 2
MaxSeqEvents == 1
\* in a run in which the other side makes no edge: calls of the consumer
MaxWaitCalls == 2
\* in a run in which the device is reset: calls of symspi_reset, events of
\* the environment
MaxResets == 1
MaxResetEvents == 1
\* in a run in which the callbacks of the consumer return new xfers:
\* edges of the other side, events of the environment
MaxIdEdges == 1
MaxIdEvents == 3

(* ---------------- symspi.c: states, symspi.h: errors -------- *)
SYMSPI_STATE_COLD == "COLD"
SYMSPI_STATE_IDLE == "IDLE"
SYMSPI_STATE_XFER_PREPARE == "XFER_PREPARE"
SYMSPI_STATE_WAITING_PREV == "WAITING_PREV"
SYMSPI_STATE_WAITING_RDY == "WAITING_RDY"
SYMSPI_STATE_XFER == "XFER"
SYMSPI_STATE_POSTPROCESSING == "POSTPROCESSING"
SYMSPI_STATE_ERROR == "ERROR"

SYMSPI_SUCCESS == "SUCCESS"
SYMSPI_ERROR_LOGICAL == "LOGICAL"
SYMSPI_ERROR_XFER_SIZE_MISMATCH == "XFER_SIZE_MISMATCH"
SYMSPI_ERROR_XFER_SIZE_ZERO == "XFER_SIZE_ZERO"
SYMSPI_ERROR_NO_MEMORY == "NO_MEMORY"
SYMSPI_ERROR_OTHER_SIDE == "OTHER_SIDE"
SYMSPI_ERROR_OVERLAP == "OVERLAP"
SYMSPI_ERROR_SPI == "SPI"
SYMSPI_ERROR_NO_XFER == "NO_XFER"
SYMSPI_ERROR_WAIT_OTHER_SIDE == "WAIT_OTHER_SIDE"
SYMSPI_ERROR_IRQ_ACQUISITION == "IRQ_ACQUISITION"
SYMSPI_ERROR_ISR_SETUP == "ISR_SETUP"
SYMSPI_ERROR_WORKQUEUE_INIT == "WORKQUEUE_INIT"
FULL_DUPLEX_ERROR_NOT_READY == "NOT_READY"
EALREADY == "EALREADY"
ENODEV == "ENODEV"

SYMSPI_INITIAL_XFER_ID == 1

SYMSPI_INIT_LEVEL_PRIVATE_ALLOCATED == 1
SYMSPI_INIT_LEVEL_XFER_CREATED == 2
SYMSPI_INIT_LEVEL_WORKQUEUE_INIT == 3
SYMSPI_INIT_LEVEL_GPIO_IRQS == 4
SYMSPI_INIT_LEVEL_FULL == 5

\* the number SYMSPI_ERROR_WORKQUEUE_INIT (symspi.h)
SYMSPI_ERROR_WORKQUEUE_INIT_NO == 17

\* edges of the error indication of symspi_recovery_sequence
ErrorPulseEdges == 5

(* ---------------- data ------------------------------------- *)
Ctx == {"thr", "isr", "tmr", "spi", "post", "rec"}

NULL == [null |-> TRUE]

\* an error pointer (IS_ERR) returned by a consumer callback: halt
ERR_PTR == [null |-> FALSE, err |-> TRUE]

\* struct full_duplex_xfer as the consumer hands it in: the size, the TX
\* data (abstract value), whether the TX buffer overlaps the TX buffer of
\* the current xfer of the device, and whether the callbacks are set.
ConsumerXfer(s, d, o) ==
    [null |-> FALSE, size_bytes |-> s, data_tx |-> d, overlap |-> o]

\* the default xfer passed to symspi_init()
DefaultXfer == ConsumerXfer(1, "A", FALSE)

\* the xfers the consumer callbacks return
CallbackXfers == { ConsumerXfer(2, "C", FALSE) }

\* the record of an API call and of its result
NoCall == [ op |-> "", xfer |-> NULL, force |-> FALSE ]
NoRes == [ code |-> "", id |-> 0 ]

\* INT_MAX of the (scaled down) int type of next_xfer_id
IntMax == 15

VARIABLES
    cfg,    \* build/board configuration: spi_master_mode, hardware_spi_rdy
    p,      \* struct symspi_dev_private (symspi->p), alive = allocated
    hw,     \* lines and bus: our_flag, their_flag, irq_pending, spi_busy
    pc,     \* position of every context
    loc,    \* local variables of every context
    cls,    \* position of the closing thread
    env,    \* used budgets of the environment
    obs     \* observations of the run (history variables)

vars == <<cfg, p, hw, pc, loc, cls, env, obs>>

\* locals of a context which is not executing anything
NoLoc ==
    [ op |-> "", fn |-> "", xfer |-> NULL, force |-> FALSE, xnull |-> TRUE,
      start |-> FALSE, orig |-> "", interr |-> SYMSPI_SUCCESS,
      err |-> SYMSPI_SUCCESS, k |-> "", status |-> 0, id |-> 0, n |-> 0,
      stale |-> FALSE, si |-> FALSE ]

\* symspi_xfer_init_copy(): done_callback and consumer_data are copied,
\* fail_callback is not (memset to zero by symspi_xfer_init_empty())
symspi_xfer_init_copy(src) ==
    [ size_bytes |-> src.size_bytes, data_tx |-> src.data_tx,
      id |-> SYMSPI_INITIAL_XFER_ID,
      done_callback |-> TRUE, fail_callback |-> FALSE ]

\* p after kfree(): nothing of it may be accessed any more.
\* counted stands for the statistics of the device (struct symspi_info
\* info, errors[].total_count): FALSE while all of them are zero.
\* next_xfer_id++ is a plain load and a plain store with no lock around
\* them: id_loaded[c] is the value a context c, which is at the call of
\* symspi_update_xfer_sequence, may have loaded before another context
\* stored its increment (0: there was no such store)
FreedPrivate ==
    [ alive |-> FALSE, state |-> SYMSPI_STATE_COLD,
      their_flag_drop_counter |-> 0, delayed_xfer_request |-> FALSE,
      close_request |-> FALSE, last_error |-> SYMSPI_SUCCESS,
      current_xfer |-> [ size_bytes |-> 0, data_tx |-> "", id |-> 0,
                         done_callback |-> FALSE, fail_callback |-> FALSE ],
      next_xfer_id |-> 0, id_loaded |-> [c \in Ctx |-> 0],
      irq |-> FALSE, timer |-> FALSE, work |-> {},
      completion |-> 0, init_level |-> 0, counted |-> FALSE ]

\* what the environment may do in a run in which the device is not
\* closed: the other side moves its flag line
Budget ==
    [ calls |-> MaxCalls, edges |-> MaxPeerEdges, events |-> MaxEvents,
      inits |-> MaxInits, closes |-> 0, fails |-> 0 ]

\* what the environment may do in a run of a device of either role
RolesBudget == [Budget EXCEPT !.events = MaxRoleEvents]

\* what the environment may do in a run in which the consumer makes no
\* call after symspi_init
PeerBudget ==
    [ calls |-> 0, edges |-> MaxRequestEdges, events |-> MaxRequestEdges,
      inits |-> MaxInits, closes |-> 0, fails |-> 0 ]

\* what the environment may do in a run in which the device is closed:
\* the other side keeps its flag line at the level it has
CloseBudget ==
    [ calls |-> MaxCalls, edges |-> 0, events |-> MaxCloseEvents,
      inits |-> MaxInits, closes |-> MaxCloses, fails |-> 0 ]

\* what the environment may do in a run over the life of the device:
\* the consumer initializes and closes it again and again, a step of
\* symspi_init may fail, the other side moves its flag line
LifeBudget ==
    [ calls |-> 0, edges |-> MaxLifeEvents, events |-> MaxLifeEvents,
      inits |-> MaxLifeInits, closes |-> MaxLifeCloses,
      fails |-> MaxInitFailures ]

\* what the environment may do in a run in which the consumer makes one
\* call after another
SeqBudget ==
    [ calls |-> MaxSeqCalls, edges |-> MaxSeqEvents, events |-> MaxSeqEvents,
      inits |-> MaxInits, closes |-> 0, fails |-> 0 ]

\* what the environment may do in a run in which the other side breaks
\* the protocol while the consumer makes a call
RecoverBudget ==
    [ calls |-> MaxCalls, edges |-> MaxPeerEdges, events |-> MaxPeerEdges,
      inits |-> MaxInits, closes |-> 0, fails |-> 0 ]

\* what the environment may do in a run in which the consumer resets the
\* device: closes counts the calls of symspi_reset
ResetBudget ==
    [ calls |-> 0, edges |-> MaxResetEvents, events |-> MaxResetEvents,
      inits |-> MaxInits, closes |-> MaxResets, fails |-> 0 ]

\* what the environment may do in a run in which the consumer asks for
\* one transfer, the callbacks of which return new xfers
IdBudget ==
    [ calls |-> MaxCalls, edges |-> MaxIdEdges, events |-> MaxIdEvents,
      inits |-> MaxInits, closes |-> 0, fails |-> 0 ]

\* what the environment may do in a run in which the other side never
\* moves its flag line, the SPI layer does not fail and the callbacks of
\* the consumer return NULL
WaitBudget ==
    [ calls |-> MaxWaitCalls, edges |-> 0, events |-> 0,
      inits |-> MaxInits, closes |-> 0, fails |-> 0 ]

\* the observations at the start of a run:
\*   thr_call, thr_res - the API call of the consumer thread, its result
\*   prev_call, prev_res - the API call made before thr_call, its result
\*   thr_rej  - what symspi_replace_xfer returned for the xfer of the call
\*   thr_rst  - the state symspi_replace_xfer found when it was called for
\*              the xfer of the call
\*   tid      - the id the xfer of the call was given; before a call
\*              the id of the default xfer symspi_init has created
\*   tdone, tfail - invocations of the done and of the fail callback for
\*              the xfer with the id tid
\*   sub_after - a bus transfer was submitted after the compare-and-swap
\*              of the call had failed
\*   nsub     - bus transfers submitted with success (counted up to 3)
\*   nreq     - requests of the other side to the initialized device:
\*              rising edges of its flag, and the flag found set by
\*              symspi_init (counted up to 3)
\*   pend     - the other side has set its flag and no bus transfer was
\*              submitted since
\*   glitch   - the other side dropped its flag while pend (it took a
\*              request back, which the protocol does not allow)
\*   err      - __symspi_error_handle was called
\*   halt     - the fail callback returned an error pointer: device halted
\*   halted   - the done callback returned an error pointer since
\*              symspi_init: device halted
\*   ret      - the last xfer the done callback has returned since
\*              symspi_init (NULL if it has returned none)
\*   nacc     - invocations of xfer_accepted_callback, which the consumer
\*              has set
\*   nid, last_id - the number of ids symspi_get_next_xfer_id has given
\*              out since symspi_init, and the last one of them
\*   wp_err   - the device is in ERROR state since the handler of a falling
\*              edge of their flag has switched it from WAITING_PREV to
\*              ERROR with SYMSPI_ERROR_OTHER_SIDE
\*   reset    - the last call of symspi_reset: its argument x and the
\*              current xfer cur of the device when it was called (NULL
\*              before a call)
\*   cls_res  - the result of symspi_close
\*   cl_xfer  - symspi_close found the device in XFER state
\*   cls2_res - the result of a symspi_close called after another one
\*   init_res - the result of the last symspi_init
\*   init_fail - the step at which a symspi_init of the run failed
\*   ninit    - the times symspi_init went through all of its steps
\*              (counted up to 2)
NoObs ==
    [ thr_call |-> NoCall, thr_res |-> NoRes, prev_call |-> NoCall,
      prev_res |-> NoRes, thr_rej |-> "", thr_rst |-> "", tid |-> 0,
      tdone |-> 0, tfail |-> 0, sub_after |-> FALSE, nsub |-> 0,
      nreq |-> 0, pend |-> FALSE, glitch |-> FALSE, err |-> FALSE,
      halt |-> FALSE, halted |-> FALSE, ret |-> NULL, nacc |-> 0,
      wp_err |-> FALSE, nid |-> 0, last_id |-> 0,
      reset |-> NULL, cls_res |-> "", cl_xfer |-> FALSE, cls2_res |-> "",
      init_res |-> "", init_fail |-> "", ninit |-> 0 ]

\* the device before symspi_init(): no private data; the configuration
\* config, the level their_flag of the flag line of the other side, and
\* the budget of the environment
InitState(config, their_flag, budget) ==
    /\ cfg = config
    /\ p = FreedPrivate
    /\ hw = [ our_flag |-> FALSE, their_flag |-> their_flag,
              irq_pending |-> FALSE, spi_busy |-> 0 ]
    /\ pc = [ c \in Ctx |-> "idle" ]
    /\ loc = [ c \in Ctx |-> NoLoc ]
    /\ cls = "idle"
    /\ env = budget
    /\ obs = NoObs

\* the build of the repository: SYMSPI_SPI_MASTER is defined true;
\* hardware_spi_rdy comes from the mode of the SPI device
Init ==
    \E h \in BOOLEAN :
        InitState([spi_master_mode |-> TRUE, hardware_spi_rdy |-> h],
                  FALSE, Budget)

\* both values of SYMSPI_SPI_MASTER
InitRoles ==
    \E m \in BOOLEAN, h \in BOOLEAN :
        InitState([spi_master_mode |-> m, hardware_spi_rdy |-> h],
                  FALSE, RolesBudget)

\* the master the consumer only initializes
InitPeer ==
    \E h \in BOOLEAN :
        InitState([spi_master_mode |-> TRUE, hardware_spi_rdy |-> h],
                  FALSE, PeerBudget)

\* the master without hardware SPI ready which is going to be closed,
\* the flag of the other side at either level
InitClose ==
    \E f \in BOOLEAN :
        InitState([spi_master_mode |-> TRUE, hardware_spi_rdy |-> FALSE],
                  f, CloseBudget)

\* the master without hardware SPI ready over its life, the flag of the
\* other side at either level at the start
InitLife ==
    \E f \in BOOLEAN :
        InitState([spi_master_mode |-> TRUE, hardware_spi_rdy |-> FALSE],
                  f, LifeBudget)

\* the master whose consumer makes one call after another
InitSeq ==
    \E h \in BOOLEAN :
        InitState([spi_master_mode |-> TRUE, hardware_spi_rdy |-> h],
                  FALSE, SeqBudget)

\* the master without hardware SPI ready, the flag of the other side at
\* either level, where it stays: either the other side has set its flag
\* when the device is initialized and the consumer makes no call, or it
\* has not and the consumer makes calls
InitWait ==
    \E f \in BOOLEAN :
        InitState([spi_master_mode |-> TRUE, hardware_spi_rdy |-> FALSE],
                  f, [WaitBudget EXCEPT !.calls = IF f THEN 0 ELSE @])

\* the master, with or without hardware SPI ready
InitRecover ==
    \E h \in BOOLEAN :
        InitState([spi_master_mode |-> TRUE, hardware_spi_rdy |-> h],
                  FALSE, RecoverBudget)

\* the master without hardware SPI ready which is going to be reset, the
\* flag of the other side at either level at the start
InitReset ==
    \E f \in BOOLEAN :
        InitState([spi_master_mode |-> TRUE, hardware_spi_rdy |-> FALSE],
                  f, ResetBudget)

\* the master, the flag of the other side low at the start: with
\* hardware SPI ready the other side makes no edge, without it the one
\* edge it makes is the only event
InitIds ==
    \E h \in BOOLEAN :
        InitState([spi_master_mode |-> TRUE, hardware_spi_rdy |-> h],
                  FALSE,
                  IF h THEN [IdBudget EXCEPT !.edges = 0]
                  ELSE [IdBudget EXCEPT !.events = MaxIdEdges])

(* ---------------- control flow helpers ---------------------- *)
\* the observer counts up to 2
Count(n) == IF n < 2 THEN n + 1 ELSE n

\* the observer counts the bus transfers up to 3
CountSub(n) == IF n < 3 THEN n + 1 ELSE n

\* context c is at label l and the private data it works on exist
At(c, l) == pc[c] = l /\ p.alive

\* c goes to label lbl with the locals l
Jump(c, lbl, l) ==
    /\ pc' = [pc EXCEPT ![c] = lbl]
    /\ loc' = [loc EXCEPT ![c] = l]

\* what the API call returns to the consumer:
\* symspi_data_xchange: (res == SYMSPI_SUCCESS && xfer) ? xfer->id : res
ApiResult(l, code) ==
    IF code = SYMSPI_SUCCESS /\ l.op = "xchg" /\ ~l.xfer.null
    THEN [ code |-> "ID", id |-> l.id ]
    ELSE [ code |-> code, id |-> 0 ]

\* the outermost function of the context returns
FinishO(c, code, l, o) ==
    /\ Jump(c, "idle", NoLoc)
    /\ obs' = IF c = "thr" /\ l.op \in {"xchg", "upd"}
              THEN [o EXCEPT !.thr_res = ApiResult(l, code)]
              ELSE o

\* the locals when the function which called symspi_to_idle_sequence
\* from inside symspi_update_xfer_sequence goes on: the masked result is
\* SYMSPI_SUCCESS, so symspi_default_data_update calls
\* symspi_to_idle_sequence(XFER_PREPARE, false, SYMSPI_SUCCESS) now
Continued(l) ==
    [l EXCEPT !.k = "", !.xnull = FALSE, !.fn = l.op, !.stale = FALSE,
              !.start = FALSE, !.interr = SYMSPI_SUCCESS,
              !.orig = IF l.k = "ti_timer"
                       THEN SYMSPI_STATE_XFER_PREPARE ELSE l.orig]

\* the sequence running in c returns code: either to the place in
\* symspi_update_xfer_sequence which called symspi_to_idle_sequence
\* (the result is ignored there), or out of the outermost function
ReturnO(c, code, l, o) ==
    IF l.k # ""
    THEN Jump(c, l.k, Continued(l)) /\ obs' = o
    ELSE FinishO(c, code, l, o)

Return(c, code) == ReturnO(c, code, loc[c], obs)

\* c goes on at label lbl, its locals and the observations unchanged
\* but for the knowledge about the closing latch, which is used up
Goto(c, lbl) ==
    Jump(c, lbl, [loc[c] EXCEPT !.stale = FALSE]) /\ obs' = obs

\* __symspi_error_handle(err_no) is called; its caller returns -err_no
CallErrorHandle(c, err_no) ==
    Jump(c, "eh_sw", [loc[c] EXCEPT !.err = err_no, !.stale = FALSE])
    /\ obs' = [obs EXCEPT !.err = TRUE]

\* symspi_switch_strict() of context c finds the device closing
Closing(c) == p.close_request /\ ~loc[c].stale

\* the labels at which a context is about to make a symspi_switch_strict()
SwitchLabels ==
    { "prep_cas", "wp_cas", "lp_cas", "rdy_cas", "ti_cas", "eh_sw", "eh_x3",
      "is_cas", "cb_cas" }

(* ---------------- pure helpers of symspi.c ------------------ *)
\* __symspi_is_closing()
symspi_is_closing == p.close_request

\* symspi_verify_consumer_input(symspi, xfer, xfer != NULL)
symspi_verify_consumer_input(xfer) ==
    IF ~xfer.null /\ xfer.size_bytes = 0
    THEN SYMSPI_ERROR_NO_XFER ELSE SYMSPI_SUCCESS

\* symspi_is_their_request()
symspi_is_their_request ==
    p.their_flag_drop_counter = 1 /\ hw.their_flag

\* a mutant of symspi_get_next_xfer_id which does not count on
NextXferIdKept(next) == <<next, next>>

\* symspi_get_next_xfer_id which does not start from the seed
NextXferIdFromZero(next) == <<next + 2, next + 3>>

\* symspi_get_next_xfer_id(): <<the id, the new next_xfer_id>>
symspi_get_next_xfer_id(next) ==
    IF next <= 0 THEN <<1, 2>>
    ELSE <<next, IF next = IntMax THEN 0 - IntMax - 1 ELSE next + 1>>

\* a symspi_replace_xfer which takes no notice of force_size_change
ReplaceXferResNoForce(cur, new_xfer, st, force_size_change) ==
    IF new_xfer.size_bytes = 0 THEN SYMSPI_ERROR_XFER_SIZE_ZERO
    ELSE IF new_xfer.overlap THEN SYMSPI_ERROR_OVERLAP
    ELSE IF cur.size_bytes # new_xfer.size_bytes /\ st # SYMSPI_STATE_XFER
         THEN SYMSPI_ERROR_XFER_SIZE_MISMATCH
    ELSE SYMSPI_SUCCESS

\* a symspi_replace_xfer which lets the size change in ERROR state
ReplaceXferResInError(cur, new_xfer, st, force_size_change) ==
    IF new_xfer.size_bytes = 0 THEN SYMSPI_ERROR_XFER_SIZE_ZERO
    ELSE IF new_xfer.overlap THEN SYMSPI_ERROR_OVERLAP
    ELSE IF cur.size_bytes # new_xfer.size_bytes
            /\ st \notin {SYMSPI_STATE_XFER, SYMSPI_STATE_ERROR}
            /\ ~force_size_change
         THEN SYMSPI_ERROR_XFER_SIZE_MISMATCH
    ELSE SYMSPI_SUCCESS

\* symspi_replace_xfer(): the error it returns for new_xfer
symspi_replace_xfer_res(cur, new_xfer, st, force_size_change) ==
    IF new_xfer.size_bytes = 0 THEN SYMSPI_ERROR_XFER_SIZE_ZERO
    ELSE IF new_xfer.overlap THEN SYMSPI_ERROR_OVERLAP
    ELSE IF cur.size_bytes # new_xfer.size_bytes
            /\ st # SYMSPI_STATE_XFER /\ ~force_size_change
         THEN SYMSPI_ERROR_XFER_SIZE_MISMATCH
    ELSE SYMSPI_SUCCESS

\* symspi_replace_xfer(): the current xfer after a successful replace
symspi_replace_xfer(cur, new_xfer, id) ==
    [ size_bytes |-> new_xfer.size_bytes, data_tx |-> new_xfer.data_tx,
      id |-> id, done_callback |-> TRUE, fail_callback |-> TRUE ]

(* ---------------- the consumer API -------------------------- *)
\* the calls of symspi_data_xchange ("xchg") and of
\* symspi_default_data_update ("upd") the consumer makes
ApiCalls ==
    { [op |-> "xchg", xfer |-> NULL, force |-> FALSE],
      [op |-> "xchg", xfer |-> ConsumerXfer(1, "B", FALSE), force |-> FALSE],
      [op |-> "xchg", xfer |-> ConsumerXfer(2, "C", FALSE), force |-> FALSE],
      [op |-> "xchg", xfer |-> ConsumerXfer(0, "Z", FALSE), force |-> FALSE],
      [op |-> "xchg", xfer |-> ConsumerXfer(1, "O", TRUE), force |-> FALSE],
      [op |-> "upd", xfer |-> ConsumerXfer(1, "B", FALSE), force |-> FALSE] }

\* the calls of a consumer which updates the default data and then asks
\* for a transfer of them
SeqCalls ==
    { [op |-> "xchg", xfer |-> NULL, force |-> FALSE],
      [op |-> "upd", xfer |-> ConsumerXfer(1, "B", FALSE), force |-> FALSE],
      [op |-> "upd", xfer |-> ConsumerXfer(2, "C", FALSE), force |-> FALSE] }

\* the calls of a consumer which asks for a transfer of the default data
\* or of new data of the same size
RecoverCalls ==
    { [op |-> "xchg", xfer |-> NULL, force |-> FALSE],
      [op |-> "xchg", xfer |-> ConsumerXfer(1, "B", FALSE), force |-> FALSE] }

\* the calls of a consumer which asks for a transfer of new data of
\* another size, with and without force_size_change
SizeCalls ==
    { [op |-> "xchg", xfer |-> ConsumerXfer(2, "C", FALSE), force |-> f] :
        f \in BOOLEAN }

\* the call of a consumer which asks for a transfer of new data
IdCalls ==
    { [op |-> "xchg", xfer |-> ConsumerXfer(1, "B", FALSE), force |-> FALSE] }

\* the consumer thread calls symspi_data_xchange(xfer, force) or
\* symspi_default_data_update(xfer, force) on an initialized device:
\* SYMSPI_CHECK_NOT_CLOSING, then symspi_idle_to_xfer_prepare_sequence
\* with symspi_verify_consumer_input first
ApiCallOf(calls) ==
    /\ pc["thr"] = "idle" /\ p.alive
    /\ env.calls > 0
    /\ env' = [env EXCEPT !.calls = @ - 1]
    /\ \E call \in calls :
         LET l == [NoLoc EXCEPT !.op = call.op, !.fn = call.op,
                                !.xfer = call.xfer, !.force = call.force,
                                !.xnull = call.xfer.null]
             o == [obs EXCEPT !.prev_call = obs.thr_call,
                              !.prev_res = obs.thr_res,
                              !.thr_call = call, !.thr_res = NoRes,
                              !.thr_rej = "", !.thr_rst = "",
                              !.tid = 0, !.tdone = 0,
                              !.tfail = 0, !.sub_after = FALSE]
         IN  IF symspi_is_closing
             THEN FinishO("thr", FULL_DUPLEX_ERROR_NOT_READY, l, o)
             ELSE IF symspi_verify_consumer_input(call.xfer) # SYMSPI_SUCCESS
             THEN FinishO("thr", symspi_verify_consumer_input(call.xfer), l, o)
             ELSE Jump("thr", "prep_cas", l) /\ obs' = o
    /\ UNCHANGED <<cfg, p, hw, cls>>

ApiCall == ApiCallOf(ApiCalls)

\* the consumer calls symspi_default_data_update or
\* symspi_data_xchange(NULL)
SeqCall == ApiCallOf(SeqCalls)

RecoverCall == ApiCallOf(RecoverCalls)

SizeCall == ApiCallOf(SizeCalls)

IdCall == ApiCallOf(IdCalls)

\* symspi_idle_to_xfer_prepare_sequence:
\* symspi_switch_strict(IDLE, XFER_PREPARE); if it fails the function
\* returns -FULL_DUPLEX_ERROR_NOT_READY
PrepCas(c) ==
    /\ At(c, "prep_cas")
    /\ IF ~Closing(c) /\ p.state = SYMSPI_STATE_IDLE
       THEN p' = [p EXCEPT !.state = SYMSPI_STATE_XFER_PREPARE]
            /\ Goto(c, "prep_upd")
       ELSE /\ p' = p
            /\ IF loc[c].fn = "xchg" /\ loc[c].xnull
               THEN Goto(c, "prep_fail")
               ELSE Return(c, FULL_DUPLEX_ERROR_NOT_READY)
    /\ UNCHANGED <<cfg, hw, cls, env>>

\* symspi_data_xchange with xfer == NULL after the failed switch:
\* delayed_xfer_request = true; return -FULL_DUPLEX_ERROR_NOT_READY
PrepFail(c) ==
    /\ At(c, "prep_fail")
    /\ p' = [p EXCEPT !.delayed_xfer_request = TRUE]
    /\ Return(c, FULL_DUPLEX_ERROR_NOT_READY)
    /\ UNCHANGED <<cfg, hw, cls, env>>

\* where the context continues after symspi_idle_to_xfer_prepare_sequence
\* returned SYMSPI_SUCCESS: symspi_data_xchange goes on with
\* symspi_xfer_prepare_to_waiting_prev_sequence, symspi_default_data_update
\* with symspi_to_idle_sequence(XFER_PREPARE, false, SYMSPI_SUCCESS)
AfterPrepare(c, l) ==
    IF l.fn = "xchg"
    THEN Jump(c, "wp_flag", l)
    ELSE Jump(c, "ti_timer",
              [l EXCEPT !.orig = SYMSPI_STATE_XFER_PREPARE,
                        !.start = FALSE, !.interr = SYMSPI_SUCCESS])

\* c is where nothing but c itself decides on its call of
\* symspi_update_xfer_sequence: the consumer thread past
\* symspi_try_to_error_sequence, a worker which has found the callback
\* of the current xfer and passes the xfer it returns on
AtUpdate(c) ==
    \/ /\ pc[c] = "prep_upd" /\ ~loc[c].xnull
       /\ p.their_flag_drop_counter <= 1
    \/ pc[c] = "pp_cb" /\ p.current_xfer.done_callback
    \/ pc[c] = "rc_cb" /\ p.current_xfer.fail_callback

\* what c can get as the value of next_xfer_id in
\* symspi_get_next_xfer_id: the value of now, or the value it had before
\* an increment another context did while c was at the call
LoadedNextXferId(c) ==
    {p.next_xfer_id} \cup ({p.id_loaded[c]} \ {0})

\* c leaves the place of the call with no call of
\* symspi_update_xfer_sequence
NoUpdate(c) == [p EXCEPT !.id_loaded[c] = 0]

\* res of symspi_update_xfer_sequence after a failed symspi_replace_xfer
MaskedUpdateRes(res) ==
    IF res # SYMSPI_ERROR_LOGICAL /\ res # SYMSPI_ERROR_NO_MEMORY
    THEN SYMSPI_SUCCESS ELSE res

\* symspi_update_xfer_sequence(xfer, original_state, force) in context c:
\* the xfer gets the next id, then symspi_replace_xfer.  If that fails,
\* and original_state is not ERROR, symspi_to_idle_sequence(
\* original_state, false, masked result) is called, after which the
\* caller goes on at label k; else the caller goes on at k at once.
UpdateXfer(c, l, xfer, original_state, force, k) ==
    \E next \in LoadedNextXferId(c) :
    LET ids == symspi_get_next_xfer_id(next)
        res == symspi_replace_xfer_res(p.current_xfer, xfer, p.state, force)
        l1  == [l EXCEPT !.id = ids[1]]
    IN  /\ p' = [p EXCEPT !.next_xfer_id = ids[2],
                   !.id_loaded = [c2 \in Ctx |->
                                    IF c2 # c /\ AtUpdate(c2)
                                    THEN p.next_xfer_id ELSE 0],
                   !.current_xfer = IF res = SYMSPI_SUCCESS
                                    THEN symspi_replace_xfer(@, xfer, ids[1])
                                    ELSE @]
        /\ IF res = SYMSPI_SUCCESS \/ original_state = SYMSPI_STATE_ERROR
           THEN Jump(c, k, Continued([l1 EXCEPT !.k = k]))
           ELSE Jump(c, "ti_timer",
                     [l1 EXCEPT !.orig = original_state, !.start = FALSE,
                                !.interr = MaskedUpdateRes(res), !.k = k])

\* symspi_idle_to_xfer_prepare_sequence after the switch:
\* symspi_try_to_error_sequence(SYMSPI_SUCCESS), then
\* symspi_update_xfer_sequence(xfer, XFER_PREPARE, force)
PrepUpd(c) ==
    /\ At(c, "prep_upd")
    /\ IF p.their_flag_drop_counter > 1
       THEN p' = NoUpdate(c) /\ CallErrorHandle(c, SYMSPI_ERROR_OTHER_SIDE)
       ELSE IF loc[c].xnull
       THEN p' = p /\ AfterPrepare(c, loc[c]) /\ obs' = obs
       ELSE /\ UpdateXfer(c, loc[c], loc[c].xfer, SYMSPI_STATE_XFER_PREPARE,
                          loc[c].force,
                          IF loc[c].fn = "xchg" THEN "wp_flag" ELSE "ti_timer")
            /\ obs' = IF c = "thr"
                      THEN [obs EXCEPT
                              !.tid = loc'[c].id,
                              !.nid = @ + 1, !.last_id = loc'[c].id,
                              !.thr_rej = symspi_replace_xfer_res(
                                              p.current_xfer, loc[c].xfer,
                                              p.state, loc[c].force),
                              !.thr_rst = p.state]
                      ELSE [obs EXCEPT !.nid = @ + 1,
                                       !.last_id = loc'[c].id]
    /\ UNCHANGED <<cfg, hw, cls, env>>

(* ---------------- symspi_xfer_prepare_to_waiting_prev_sequence ---- *)
\* symspi_our_flag_set(), symspi_try_to_error_sequence(SYMSPI_SUCCESS)
WpFlag(c) ==
    /\ At(c, "wp_flag")
    /\ hw' = [hw EXCEPT !.our_flag = TRUE]
    /\ IF p.their_flag_drop_counter > 1
       THEN CallErrorHandle(c, SYMSPI_ERROR_OTHER_SIDE)
       ELSE Goto(c, "wp_cas")
    /\ UNCHANGED <<cfg, p, cls, env>>

\* a switch out of XFER_PREPARE which goes to XFER at once
WpCasToXfer(c) ==
    /\ At(c, "wp_cas")
    /\ IF ~Closing(c) /\ p.state = SYMSPI_STATE_XFER_PREPARE
       THEN p' = [p EXCEPT !.state = SYMSPI_STATE_XFER]
            /\ Goto(c, "wp_timer")
       ELSE p' = p /\ Goto(c, "wp_rd")
    /\ UNCHANGED <<cfg, hw, cls, env>>

\* symspi_switch_strict(XFER_PREPARE, WAITING_PREV)
WpCas(c) ==
    /\ At(c, "wp_cas")
    /\ IF ~Closing(c) /\ p.state = SYMSPI_STATE_XFER_PREPARE
       THEN p' = [p EXCEPT !.state = SYMSPI_STATE_WAITING_PREV]
            /\ Goto(c, "wp_timer")
       ELSE p' = p /\ Goto(c, "wp_rd")
    /\ UNCHANGED <<cfg, hw, cls, env>>

\* their_flag_drop_counter == 1 || !spi_master_mode:
\* symspi_try_leave_waiting_prev_sequence, where the slave goes to
\* symspi_do_xfer without a state switch (the switch WAITING_PREV -> XFER
\* is compiled only with SYMSPI_DEBUG); else return SYMSPI_SUCCESS
WpLeave(c) ==
    IF p.their_flag_drop_counter = 1 \/ ~cfg.spi_master_mode
    THEN Goto(c, IF cfg.spi_master_mode THEN "lp_cas" ELSE "do_xfer")
    ELSE Return(c, SYMSPI_SUCCESS)

\* __symspi_restart_timeout_timer() after the successful switch, then
\* the check of the drop counter
WpTimer(c) ==
    /\ At(c, "wp_timer")
    /\ p' = [p EXCEPT !.timer = TRUE]
    /\ WpLeave(c)
    /\ UNCHANGED <<cfg, hw, cls, env>>

\* the check of the drop counter after the failed switch
WpRd(c) ==
    /\ At(c, "wp_rd")
    /\ WpLeave(c)
    /\ UNCHANGED <<cfg, p, hw, cls, env>>

\* a switch out of WAITING_PREV which takes the hardware SPI ready line
\* for missing when it is there
LpCasInverted(c) ==
    /\ At(c, "lp_cas")
    /\ IF ~Closing(c) /\ p.state = SYMSPI_STATE_WAITING_PREV
       THEN /\ p' = [p EXCEPT !.state = IF ~cfg.hardware_spi_rdy
                                         THEN SYMSPI_STATE_XFER
                                         ELSE SYMSPI_STATE_WAITING_RDY]
            /\ Goto(c, IF ~cfg.hardware_spi_rdy THEN "do_xfer" ELSE "lp_rdy")
       ELSE p' = p /\ Return(c, SYMSPI_SUCCESS)
    /\ UNCHANGED <<cfg, hw, cls, env>>

(* ---------------- symspi_try_leave_waiting_prev_sequence ---------- *)
\* master: symspi_switch_strict(WAITING_PREV, XFER) with hardware SPI
\* ready, symspi_switch_strict(WAITING_PREV, WAITING_RDY) without
LpCas(c) ==
    /\ At(c, "lp_cas")
    /\ IF ~Closing(c) /\ p.state = SYMSPI_STATE_WAITING_PREV
       THEN /\ p' = [p EXCEPT !.state = IF cfg.hardware_spi_rdy
                                         THEN SYMSPI_STATE_XFER
                                         ELSE SYMSPI_STATE_WAITING_RDY]
            /\ Goto(c, IF cfg.hardware_spi_rdy THEN "do_xfer" ELSE "lp_rdy")
       ELSE p' = p /\ Return(c, SYMSPI_SUCCESS)
    /\ UNCHANGED <<cfg, hw, cls, env>>

\* after the switch to WAITING_RDY: __symspi_restart_timeout_timer(), then
\* symspi_is_their_request() decides on symspi_try_leave_waiting_rdy_sequence
LpRdy(c) ==
    /\ At(c, "lp_rdy")
    /\ p' = [p EXCEPT !.timer = TRUE]
    /\ IF symspi_is_their_request
       THEN Goto(c, "rdy_cas")
       ELSE Return(c, SYMSPI_SUCCESS)
    /\ UNCHANGED <<cfg, hw, cls, env>>

(* ---------------- symspi_try_leave_waiting_rdy_sequence ----------- *)
\* symspi_switch_strict(WAITING_RDY, XFER)
RdyCas(c) ==
    /\ At(c, "rdy_cas")
    /\ IF ~Closing(c) /\ p.state = SYMSPI_STATE_WAITING_RDY
       THEN p' = [p EXCEPT !.state = SYMSPI_STATE_XFER]
            /\ Goto(c, "do_xfer")
       ELSE p' = p /\ Return(c, SYMSPI_SUCCESS)
    /\ UNCHANGED <<cfg, hw, cls, env>>

(* ---------------- symspi_do_xfer ---------------------------------- *)
\* __symspi_stop_timeout_timer() of the caller, then symspi_do_xfer():
\* the drop counter is zeroed and the message is handed to spi_async(),
\* which accepts it (ok) or rejects it (-SYMSPI_ERROR_SPI is returned)
DoXfer(c) ==
    /\ At(c, "do_xfer")
    /\ \E ok \in BOOLEAN :
         /\ ok \/ env.events > 0
         /\ p' = [p EXCEPT !.timer = FALSE, !.their_flag_drop_counter = 0]
         /\ hw' = [hw EXCEPT !.spi_busy = IF ok THEN @ + 1 ELSE @]
         /\ env' = [env EXCEPT !.events = IF ok THEN @ ELSE @ - 1]
         /\ ReturnO(c, IF ok THEN SYMSPI_SUCCESS ELSE SYMSPI_ERROR_SPI,
                    loc[c],
                    [obs EXCEPT !.nsub = IF ok THEN CountSub(@) ELSE @,
                                !.pend = @ /\ ~ok,
                                !.sub_after =
                                    @ \/ (ok /\ (pc["thr"] = "prep_fail"
                                          \/ obs.thr_res.code =
                                               FULL_DUPLEX_ERROR_NOT_READY))])
    /\ UNCHANGED <<cfg, cls>>

(* ---------------- symspi_to_idle_sequence ------------------------- *)
\* __symspi_stop_timeout_timer_sync() (waits for a running timer handler),
\* then start_next_xfer = start_next_xfer || delayed_xfer_request
TiTimer(c) ==
    /\ At(c, "ti_timer")
    /\ pc["tmr"] = "idle"
    /\ p' = [p EXCEPT !.timer = FALSE]
    /\ Jump(c, "ti_cas", [loc[c] EXCEPT !.start = @ \/ p.delayed_xfer_request])
    /\ UNCHANGED <<cfg, hw, cls, env, obs>>

\* symspi_switch_strict(original_state, IDLE), its result is ignored
TiCas(c) ==
    /\ At(c, "ti_cas")
    /\ p' = IF ~Closing(c) /\ p.state = loc[c].orig
            THEN [p EXCEPT !.state = SYMSPI_STATE_IDLE] ELSE p
    /\ Jump(c, "ti_rd", [loc[c] EXCEPT !.stale = FALSE])
    /\ obs' = [obs EXCEPT !.wp_err = @ /\ p'.state = SYMSPI_STATE_ERROR]
    /\ UNCHANGED <<cfg, hw, cls, env>>

\* original_state != ERROR: symspi_try_to_error_sequence(internal_error);
\* then start_next_xfer = start_next_xfer || delayed_xfer_request
TiRd(c) ==
    /\ At(c, "ti_rd")
    /\ IF loc[c].orig # SYMSPI_STATE_ERROR
          /\ (loc[c].interr # SYMSPI_SUCCESS \/ p.their_flag_drop_counter > 1)
       THEN CallErrorHandle(c, IF loc[c].interr = SYMSPI_SUCCESS
                               THEN SYMSPI_ERROR_OTHER_SIDE
                               ELSE loc[c].interr)
       ELSE Jump(c, "ti_clr",
                 [loc[c] EXCEPT !.start = @ \/ p.delayed_xfer_request])
            /\ obs' = obs
    /\ UNCHANGED <<cfg, p, hw, cls, env>>

\* delayed_xfer_request = false; then, if start_next_xfer or
\* symspi_is_their_request(), return symspi_data_xchange(NULL, false),
\* which starts with SYMSPI_CHECK_NOT_CLOSING
TiClr(c) ==
    /\ At(c, "ti_clr")
    /\ p' = [p EXCEPT !.delayed_xfer_request = FALSE]
    /\ IF loc[c].start \/ symspi_is_their_request
       THEN IF symspi_is_closing
            THEN Return(c, FULL_DUPLEX_ERROR_NOT_READY)
            ELSE Jump(c, "prep_cas", [loc[c] EXCEPT !.fn = "xchg", !.xnull = TRUE])
                 /\ obs' = obs
       ELSE Return(c, SYMSPI_SUCCESS)
    /\ UNCHANGED <<cfg, hw, cls, env>>

(* ---------------- __symspi_error_handle_ -------------------------- *)
\* states the error handler switches to ERROR at once
EhToErrorStates ==
    { SYMSPI_STATE_IDLE, SYMSPI_STATE_XFER_PREPARE, SYMSPI_STATE_WAITING_PREV,
      SYMSPI_STATE_WAITING_RDY, SYMSPI_STATE_POSTPROCESSING }

\* an error handler which records the error and schedules recover_work
\* also when it finds the state ERROR
EhSwRecordsInError(c) ==
    /\ At(c, "eh_sw")
    /\ LET p1 == [p EXCEPT !.counted = TRUE]
       IN  IF Closing(c)
           THEN p' = p1 /\ Goto(c, "eh_spin")
           ELSE IF p.state \in EhToErrorStates \cup {SYMSPI_STATE_ERROR}
           THEN p' = [p1 EXCEPT !.state = SYMSPI_STATE_ERROR]
                /\ Jump(c, "eh_rec", [loc[c] EXCEPT !.stale = FALSE])
                /\ obs' = [obs EXCEPT !.wp_err =
                                 /\ p.state = SYMSPI_STATE_WAITING_PREV
                                 /\ loc[c].op = "isr"
                                 /\ loc[c].err = SYMSPI_ERROR_OTHER_SIDE]
           ELSE IF p.state = SYMSPI_STATE_XFER
           THEN p' = p1 /\ Goto(c, "eh_x1")
           ELSE p' = p1 /\ Return(c, loc[c].err)
    /\ UNCHANGED <<cfg, hw, cls, env>>

\* the error is counted (info.other_side_*_errors, total_count of its
\* record), then
\* the loop of compare-and-swaps: the one which matches the current state
\* succeeds.  While the device closes no symspi_switch_strict of the loop
\* succeeds, and the loop goes around for ever
EhSw(c) ==
    /\ At(c, "eh_sw")
    /\ LET p1 == [p EXCEPT !.counted = TRUE]
       IN  IF Closing(c)
           THEN p' = p1 /\ Goto(c, "eh_spin")
           ELSE IF p.state \in EhToErrorStates
           THEN p' = [p1 EXCEPT !.state = SYMSPI_STATE_ERROR]
                /\ Jump(c, "eh_rec", [loc[c] EXCEPT !.stale = FALSE])
                /\ obs' = [obs EXCEPT !.wp_err =
                                 /\ p.state = SYMSPI_STATE_WAITING_PREV
                                 /\ loc[c].op = "isr"
                                 /\ loc[c].err = SYMSPI_ERROR_OTHER_SIDE]
           ELSE IF p.state = SYMSPI_STATE_XFER
           THEN p' = p1 /\ Goto(c, "eh_x1")
           ELSE \* ERROR, COLD: nothing to do
                p' = p1 /\ Return(c, loc[c].err)
    /\ UNCHANGED <<cfg, hw, cls, env>>

\* the loop goes around while the device closes
EhSpin(c) ==
    /\ At(c, "eh_spin")
    /\ symspi_is_closing
    /\ UNCHANGED vars

\* an error handler which leaves out the scheduling of recover_work
EhRecNoWork(c) ==
    /\ At(c, "eh_rec")
    /\ p' = [p EXCEPT !.last_error = loc[c].err]
    /\ Return(c, loc[c].err)
    /\ UNCHANGED <<cfg, hw, cls, env>>

\* after the switch to ERROR: last_error = err_no, schedule recover_work
EhRec(c) ==
    /\ At(c, "eh_rec")
    /\ p' = [p EXCEPT !.last_error = loc[c].err, !.work = @ \cup {"rec"}]
    /\ Return(c, loc[c].err)
    /\ UNCHANGED <<cfg, hw, cls, env>>

\* the error came in state XFER: last_error = err_no, the recovery is
\* postponed till the SPI layer returns
EhX1(c) ==
    /\ At(c, "eh_x1")
    /\ p' = [p EXCEPT !.last_error = loc[c].err]
    /\ Goto(c, "eh_x3")
    /\ UNCHANGED <<cfg, hw, cls, env>>

\* an error handler which leaves out the switch from POSTPROCESSING
EhX3NoSwitch(c) ==
    /\ At(c, "eh_x3")
    /\ p' = p
    /\ Return(c, loc[c].err)
    /\ UNCHANGED <<cfg, hw, cls, env>>

\* symspi_switch_strict(POSTPROCESSING, ERROR); recover_work is scheduled
\* if it succeeded
EhX3(c) ==
    /\ At(c, "eh_x3")
    /\ p' = IF ~Closing(c) /\ p.state = SYMSPI_STATE_POSTPROCESSING
            THEN [p EXCEPT !.state = SYMSPI_STATE_ERROR,
                           !.work = @ \cup {"rec"}]
            ELSE p
    /\ Return(c, loc[c].err)
    /\ UNCHANGED <<cfg, hw, cls, env>>

(* ---------------- the other side and the their-flag ISR ----------- *)
\* the other side changes the level of its flag; the edge raises the
\* interrupt if it is requested for this kind of edge
\* (symspi_init_gpio_irqs: falling always, rising unless hardware_spi_rdy)
PeerEdge ==
    /\ env.edges > 0 /\ env.events > 0
    /\ env' = [env EXCEPT !.edges = @ - 1, !.events = @ - 1]
    /\ hw' = [hw EXCEPT !.their_flag = ~@,
                !.irq_pending = @ \/ (p.alive /\ p.irq
                       /\ (hw.their_flag \/ ~cfg.hardware_spi_rdy))]
    /\ obs' = [obs EXCEPT !.nreq = IF p.alive /\ ~hw.their_flag
                                   THEN CountSub(@) ELSE @,
                          !.pend = ~hw.their_flag,
                          !.glitch = @ \/ (hw.their_flag /\ obs.pend)]
    /\ UNCHANGED <<cfg, p, pc, loc, cls>>

\* the interrupt is delivered, symspi_their_flag_isr runs: nothing in
\* COLD state; the level of their flag selects the set sequence or the
\* drop sequence; symspi_their_flag_drop_isr_sequence increments the
\* drop counter; info.their_flag_edges += 1
Isr ==
    /\ hw.irq_pending /\ pc["isr"] = "idle" /\ p.alive /\ p.irq
    /\ hw' = [hw EXCEPT !.irq_pending = FALSE]
    /\ LET l == [NoLoc EXCEPT !.op = "isr"]
           counter == p.their_flag_drop_counter + 1
       IN  IF p.state = SYMSPI_STATE_COLD
           THEN UNCHANGED <<p, pc, loc, obs>>
           ELSE IF hw.their_flag
           THEN /\ p' = [p EXCEPT !.counted = TRUE]
                /\ Jump("isr", "is_cas", l) /\ obs' = obs
           ELSE /\ p' = [p EXCEPT !.their_flag_drop_counter = counter,
                                 !.counted = TRUE]
                /\ IF counter = 1 /\ cfg.spi_master_mode
                   THEN Jump("isr", "lp_cas", l) /\ obs' = obs
                   ELSE IF counter >= 2
                   THEN /\ Jump("isr", "eh_sw",
                                [l EXCEPT !.fn = "drop",
                                          !.err = SYMSPI_ERROR_OTHER_SIDE])
                        /\ obs' = [obs EXCEPT !.err = TRUE]
                   ELSE UNCHANGED <<pc, loc, obs>>
    /\ UNCHANGED <<cfg, cls, env>>

\* symspi_their_flag_set_isr_sequence:
\* symspi_switch_strict(IDLE, XFER_PREPARE); on success
\* symspi_xfer_prepare_to_waiting_prev_sequence follows, else on the
\* master without hardware SPI ready symspi_try_leave_waiting_rdy_sequence
IsCas(c) ==
    /\ At(c, "is_cas")
    /\ IF ~Closing(c) /\ p.state = SYMSPI_STATE_IDLE
       THEN p' = [p EXCEPT !.state = SYMSPI_STATE_XFER_PREPARE]
            /\ Goto(c, "wp_flag")
       ELSE /\ p' = p
            /\ IF cfg.spi_master_mode /\ ~cfg.hardware_spi_rdy
               THEN Goto(c, "rdy_cas")
               ELSE Return(c, SYMSPI_SUCCESS)
    /\ UNCHANGED <<cfg, hw, cls, env>>

(* ---------------- the wait timeout timer -------------------------- *)
\* the armed timer expires: symspi_wait_flag_timeout calls
\* __symspi_error_handle(SYMSPI_ERROR_WAIT_OTHER_SIDE)
TimerFire ==
    /\ p.timer /\ pc["tmr"] = "idle"
    /\ env.events > 0
    /\ env' = [env EXCEPT !.events = @ - 1]
    /\ p' = [p EXCEPT !.timer = FALSE]
    /\ Jump("tmr", "eh_sw",
            [NoLoc EXCEPT !.op = "tmr", !.err = SYMSPI_ERROR_WAIT_OTHER_SIDE])
    /\ obs' = [obs EXCEPT !.err = TRUE]
    /\ UNCHANGED <<cfg, hw, cls>>

\* the same expiry, not counted as an event of the environment: a timer
\* which stays armed expires, however often it was armed
TimerExpiry ==
    /\ p.timer /\ pc["tmr"] = "idle"
    /\ p' = [p EXCEPT !.timer = FALSE]
    /\ Jump("tmr", "eh_sw",
            [NoLoc EXCEPT !.op = "tmr", !.err = SYMSPI_ERROR_WAIT_OTHER_SIDE])
    /\ obs' = [obs EXCEPT !.err = TRUE]
    /\ UNCHANGED <<cfg, hw, cls, env>>

(* ---------------- the SPI layer and symspi_spi_xfer_done_callback --- *)
\* the SPI layer finishes a submitted transfer with the given status
\* and calls the completion callback
BusDone ==
    /\ hw.spi_busy > 0 /\ pc["spi"] = "idle"
    /\ \E st \in {0, 1} :
         /\ st = 0 \/ env.events > 0
         /\ env' = [env EXCEPT !.events = @ - st]
         /\ Jump("spi", "cb_cas", [NoLoc EXCEPT !.op = "spi", !.status = st])
    /\ hw' = [hw EXCEPT !.spi_busy = @ - 1]
    /\ UNCHANGED <<cfg, p, cls, obs>>

\* symspi_switch_strict(XFER, POSTPROCESSING).  While closing the state
\* XFER is left, final_leave_xfer_completion is completed, and the switch
\* reports failure; a failed switch is followed by
\* __symspi_error_handle(SYMSPI_ERROR_LOGICAL)
CbCas(c) ==
    /\ At(c, "cb_cas")
    /\ IF Closing(c)
       THEN /\ p' = [p EXCEPT
                      !.state = IF @ = SYMSPI_STATE_XFER
                                THEN SYMSPI_STATE_POSTPROCESSING ELSE @,
                      !.completion = @ + 1]
            /\ CallErrorHandle(c, SYMSPI_ERROR_LOGICAL)
       ELSE IF p.state = SYMSPI_STATE_XFER
       THEN p' = [p EXCEPT !.state = SYMSPI_STATE_POSTPROCESSING]
            /\ Goto(c, "cb_err")
       ELSE p' = p /\ CallErrorHandle(c, SYMSPI_ERROR_LOGICAL)
    /\ UNCHANGED <<cfg, hw, cls, env>>

\* the postponed error, the status of the SPI message, then
\* info.xfers_done_ok += 1 and the scheduling of postprocessing_work
CbErr(c) ==
    /\ At(c, "cb_err")
    /\ IF p.last_error # SYMSPI_SUCCESS
       THEN p' = p /\ CallErrorHandle(c, p.last_error)
       ELSE IF loc[c].status # 0
       THEN p' = p /\ CallErrorHandle(c, SYMSPI_ERROR_SPI)
       ELSE p' = [p EXCEPT !.work = @ \cup {"post"}, !.counted = TRUE]
            /\ Return(c, SYMSPI_SUCCESS)
    /\ UNCHANGED <<cfg, hw, cls, env>>

(* ---------------- the workqueue ----------------------------------- *)
\* work w is not running.  The private workqueue is made by
\* alloc_workqueue("symspi", WQ_HIGHPRI, 0): a work never runs twice at
\* a time, the two works may run at the same time
WorkIdle(w) == pc[w] = "idle"

\* no work is running
RunnerIdle == WorkIdle("post") /\ WorkIdle("rec")

\* what a consumer callback may return: NULL, and within the budget of
\* the run an error pointer (halt) or a new xfer
CallbackReturns ==
    {NULL} \cup (IF env.events > 0 THEN {ERR_PTR} \cup CallbackXfers ELSE {})

\* what the done callback may return, with start_immediately: NULL and
\* false, and within the budget of the run one of: NULL and true, an
\* error pointer, a new xfer and false, a new xfer and true
DoneCallbackReturns ==
    { <<r, FALSE>> : r \in CallbackReturns }
        \cup (IF env.events > 0
              THEN { <<r, TRUE>> : r \in {NULL} \cup CallbackXfers } ELSE {})

(* ---------------- symspi_postprocessing_sequence ------------------ *)
\* a postprocessing which drops our flag before the done callback
PpStartDropsFlag ==
    /\ p.alive /\ WorkIdle("post") /\ "post" \in p.work
    /\ p' = [p EXCEPT !.work = @ \ {"post"}]
    /\ hw' = [hw EXCEPT !.our_flag = FALSE]
    /\ IF p.state = SYMSPI_STATE_POSTPROCESSING
       THEN Jump("post", "pp_cb", [NoLoc EXCEPT !.op = "post"])
       ELSE UNCHANGED <<pc, loc>>
    /\ UNCHANGED <<cfg, cls, env, obs>>

\* postprocessing_work starts: SYMSPI_CHECK_STATE(POSTPROCESSING, return)
PpStart ==
    /\ p.alive /\ WorkIdle("post") /\ "post" \in p.work
    /\ p' = [p EXCEPT !.work = @ \ {"post"}]
    /\ IF p.state = SYMSPI_STATE_POSTPROCESSING
       THEN Jump("post", "pp_cb", [NoLoc EXCEPT !.op = "post"])
       ELSE UNCHANGED <<pc, loc>>
    /\ UNCHANGED <<cfg, hw, cls, env, obs>>

\* the done callback of the current xfer is called (if set) and returns
\* NULL, an error pointer (halt) or the next xfer, and start_immediately;
\* for a next xfer symspi_update_xfer_sequence(next_xfer, POSTPROCESSING,
\* true) follows, and xfer_accepted_callback(next_xfer)
PpCb(c) ==
    /\ At(c, "pp_cb")
    /\ IF p.current_xfer.done_callback
       THEN \E ret \in DoneCallbackReturns :
            LET r == ret[1]
                si == ret[2]
                o == [obs EXCEPT
                        !.tdone = IF p.current_xfer.id = obs.tid
                                  THEN Count(@) ELSE @,
                        !.halted = @ \/ r = ERR_PTR,
                        !.ret = IF r \in CallbackXfers THEN r ELSE @,
                        !.nacc = IF r \in CallbackXfers THEN @ + 1 ELSE @]
                l == [loc[c] EXCEPT !.si = si, !.xfer = r]
            IN  /\ env' = [env EXCEPT !.events = IF r = NULL /\ ~si
                                                 THEN @ ELSE @ - 1]
                /\ IF r = ERR_PTR
                   THEN p' = NoUpdate(c) /\ Jump(c, "idle", NoLoc)
                   ELSE IF r = NULL
                   THEN p' = NoUpdate(c) /\ Jump(c, "pp_drop", l)
                   ELSE UpdateXfer(c, l, r, SYMSPI_STATE_POSTPROCESSING,
                                   TRUE, "pp_drop")
                /\ obs' = IF r \in CallbackXfers
                          THEN [o EXCEPT !.nid = @ + 1,
                                         !.last_id = loc'[c].id]
                          ELSE o
       ELSE p' = NoUpdate(c) /\ Goto(c, "pp_drop") /\ env' = env
    /\ UNCHANGED <<cfg, hw, cls>>

\* a postprocessing which does not pass start_immediately on
PpDropNoStart(c) ==
    /\ At(c, "pp_drop")
    /\ hw' = [hw EXCEPT !.our_flag = FALSE]
    /\ Jump(c, "ti_timer",
            [loc[c] EXCEPT !.orig = SYMSPI_STATE_POSTPROCESSING,
                           !.start = FALSE, !.interr = SYMSPI_SUCCESS])
    /\ UNCHANGED <<cfg, p, cls, env, obs>>

\* symspi_our_flag_drop(), the silence period, then
\* symspi_to_idle_sequence(POSTPROCESSING, start_immediately, SUCCESS)
PpDrop(c) ==
    /\ At(c, "pp_drop")
    /\ hw' = [hw EXCEPT !.our_flag = FALSE]
    /\ Jump(c, "ti_timer",
            [loc[c] EXCEPT !.orig = SYMSPI_STATE_POSTPROCESSING,
                           !.start = loc[c].si, !.interr = SYMSPI_SUCCESS])
    /\ UNCHANGED <<cfg, p, cls, env, obs>>

(* ---------------- symspi_recovery_sequence ------------------------ *)
\* recover_work starts: SYMSPI_CHECK_STATE(ERROR, return), error_code =
\* last_error, __symspi_stop_timeout_timer_sync(), symspi_our_flag_drop()
RcStart ==
    /\ p.alive /\ WorkIdle("rec") /\ "rec" \in p.work
    /\ IF p.state = SYMSPI_STATE_ERROR
       THEN /\ pc["tmr"] = "idle"
            /\ p' = [p EXCEPT !.work = @ \ {"rec"}, !.timer = FALSE]
            /\ hw' = [hw EXCEPT !.our_flag = FALSE]
            /\ Jump("rec", "rc_pulse",
                    [NoLoc EXCEPT !.op = "rec", !.err = p.last_error, !.n = 1])
       ELSE /\ p' = [p EXCEPT !.work = @ \ {"rec"}]
            /\ UNCHANGED <<hw, pc, loc>>
    /\ UNCHANGED <<cfg, cls, env, obs>>

\* the level of our flag after n edges of the error indication, which
\* starts with a drop
PulseLevel(n) == n % 2 = 0

\* the rest of the error indication on our flag, one edge at a time:
\* set, drop, set, drop, with a silence period after each (the last one
\* is the recovery silence time)
RcPulse(c) ==
    /\ At(c, "rc_pulse")
    /\ LET n == loc[c].n + 1
       IN  /\ hw' = [hw EXCEPT !.our_flag = PulseLevel(n)]
           /\ Jump(c, IF n = ErrorPulseEdges THEN "rc_cb" ELSE "rc_pulse",
                   [loc[c] EXCEPT !.n = n])
    /\ UNCHANGED <<cfg, p, cls, env, obs>>

\* the fail callback of the current xfer is called (if set) and returns
\* NULL (restart the current xfer), an error pointer (halt) or a new
\* xfer; for a new xfer symspi_update_xfer_sequence(next_xfer, ERROR,
\* true) follows, the result of which is SYMSPI_SUCCESS also after a
\* failed replace
RcCb(c) ==
    /\ At(c, "rc_cb")
    /\ IF p.current_xfer.fail_callback
       THEN \E r \in CallbackReturns :
            LET o == [obs EXCEPT !.tfail = IF p.current_xfer.id = obs.tid
                                           THEN Count(@) ELSE @,
                                 !.halt = @ \/ r = ERR_PTR,
                                 !.nacc = IF r \in CallbackXfers
                                          THEN @ + 1 ELSE @]
                l == [loc[c] EXCEPT !.xfer = r]
            IN  /\ env' = [env EXCEPT !.events = IF r = NULL THEN @ ELSE @ - 1]
                /\ IF r = ERR_PTR
                   THEN p' = NoUpdate(c) /\ Jump(c, "idle", NoLoc)
                   ELSE IF r = NULL
                   THEN p' = NoUpdate(c) /\ Jump(c, "rc_fin", l)
                   ELSE UpdateXfer(c, l, r, SYMSPI_STATE_ERROR, TRUE, "rc_fin")
                /\ obs' = IF r \in CallbackXfers
                          THEN [o EXCEPT !.nid = @ + 1,
                                         !.last_id = loc'[c].id]
                          ELSE o
       ELSE p' = NoUpdate(c) /\ Goto(c, "rc_fin") /\ env' = env
    /\ UNCHANGED <<cfg, hw, cls>>

\* an end of the recovery which calls
\* symspi_to_idle_sequence(ERROR, false, SYMSPI_SUCCESS)
RcFinNoStart(c) ==
    /\ At(c, "rc_fin")
    /\ p' = [p EXCEPT !.their_flag_drop_counter = 1,
                      !.last_error = SYMSPI_SUCCESS]
    /\ Jump(c, "ti_timer",
            [loc[c] EXCEPT !.orig = SYMSPI_STATE_ERROR, !.start = FALSE,
                           !.interr = SYMSPI_SUCCESS])
    /\ UNCHANGED <<cfg, hw, cls, env, obs>>

\* their_flag_drop_counter = 1; last_error = SYMSPI_SUCCESS; then
\* symspi_to_idle_sequence(ERROR, true, SYMSPI_SUCCESS)
RcFin(c) ==
    /\ At(c, "rc_fin")
    /\ p' = [p EXCEPT !.their_flag_drop_counter = 1,
                      !.last_error = SYMSPI_SUCCESS]
    /\ Jump(c, "ti_timer",
            [loc[c] EXCEPT !.orig = SYMSPI_STATE_ERROR, !.start = TRUE,
                           !.interr = SYMSPI_SUCCESS])
    /\ UNCHANGED <<cfg, hw, cls, env, obs>>

(* ---------------- symspi_init ------------------------------------- *)
\* the steps of symspi_init which may fail once the private data are
\* allocated: symspi_xfer_init_copy, __symspi_init_workqueue, and in
\* symspi_init_gpio_irqs gpiod_to_irq and request_irq
InitFailures == {"xfer", "wq", "gpio", "isr"}

\* what symspi_init returns when step f fails ("alloc": kzalloc)
InitError(f) ==
    CASE f \in {"alloc", "xfer"} -> SYMSPI_ERROR_NO_MEMORY
      [] f = "wq" -> SYMSPI_ERROR_WORKQUEUE_INIT
      [] f = "gpio" -> SYMSPI_ERROR_IRQ_ACQUISITION
      [] f = "isr" -> SYMSPI_ERROR_ISR_SETUP

\* init_level when symspi_init stops at step f ("ok": at none).
\* __symspi_error_report_init writes the record of WORKQUEUE_INIT to
\* errors[14] of the array errors[SYMSPI_ERROR_TYPES_COUNT]: out of bounds.
\* init_level is the member which follows the array, so till the next
\* __SYMSPI_INIT_LEVEL it holds what was set before or the err_num written
InitLevels(f) ==
    CASE f = "xfer" -> { SYMSPI_INIT_LEVEL_PRIVATE_ALLOCATED,
                         SYMSPI_ERROR_WORKQUEUE_INIT_NO }
      [] f = "wq" -> { SYMSPI_INIT_LEVEL_XFER_CREATED }
      [] f \in {"gpio", "isr"} -> { SYMSPI_INIT_LEVEL_WORKQUEUE_INIT }
      [] OTHER -> { SYMSPI_INIT_LEVEL_FULL }

\* the current xfer after symspi_xfer_init_empty
EmptyXfer ==
    [ size_bytes |-> 0, data_tx |-> "", id |-> SYMSPI_INITIAL_XFER_ID,
      done_callback |-> FALSE, fail_callback |-> FALSE ]

\* the private data symspi_init has set up when it stops at step f with
\* the init level lvl: kzalloc gives zeroes (state COLD), close_request is
\* true from the allocation till the end of the initialization
InitPrivate(f, lvl) ==
    LET ids == symspi_get_next_xfer_id(SYMSPI_INITIAL_XFER_ID)
        created == f # "xfer"
        wq == f \notin {"xfer", "wq"}
        full == f = "ok"
    IN  [ alive |-> TRUE,
          state |-> IF full THEN SYMSPI_STATE_IDLE ELSE SYMSPI_STATE_COLD,
          their_flag_drop_counter |-> IF wq THEN 1 ELSE 0,
          delayed_xfer_request |-> FALSE, close_request |-> ~full,
          last_error |-> SYMSPI_SUCCESS,
          current_xfer |-> IF created
                           THEN [symspi_xfer_init_copy(DefaultXfer)
                                     EXCEPT !.id = ids[1]]
                           ELSE EmptyXfer,
          next_xfer_id |-> IF created THEN ids[2] ELSE SYMSPI_INITIAL_XFER_ID,
          id_loaded |-> [c \in Ctx |-> 0],
          irq |-> full, timer |-> FALSE, work |-> {}, completion |-> 0,
          init_level |-> lvl, counted |-> FALSE ]

\* a symspi_init which sets the drop counter of a device it reuses
SymspiInitReuseCounter ==
    /\ env' = [env EXCEPT !.inits = @ - 1]
    /\ obs' = [obs EXCEPT !.init_res = SYMSPI_SUCCESS]
    /\ p' = [p EXCEPT !.their_flag_drop_counter = 1]
    /\ UNCHANGED <<hw, pc, loc>>

\* symspi_init with private data present: "already initialized, will
\* reuse it", return SYMSPI_SUCCESS
SymspiInitReuse ==
    /\ env' = [env EXCEPT !.inits = @ - 1]
    /\ obs' = [obs EXCEPT !.init_res = SYMSPI_SUCCESS]
    /\ UNCHANGED <<p, hw, pc, loc>>

\* symspi_init(device, default_xfer), called while nothing else of the
\* driver runs.  With private data of the right magic present: "already
\* initialized, will reuse it", return SYMSPI_SUCCESS.  Else the private
\* data are allocated and set up step by step.  A step which fails calls
\* symspi_close() and returns its error: with private data allocated
\* close_request is true already, so that symspi_close returns -EALREADY
\* at its compare-and-swap and frees nothing.  Without failure the IRQ is
\* requested, the state becomes IDLE, and with their flag set
\* symspi_data_xchange(NULL, false) follows
SymspiInit ==
    /\ cls = "idle" /\ \A c \in Ctx : pc[c] = "idle"
    /\ ~p.timer /\ hw.spi_busy = 0
    /\ env.inits > 0
    /\ IF p.alive
       THEN SymspiInitReuse
       ELSE \E f \in {"ok"} \cup (IF env.fails > 0
                                  THEN InitFailures \cup {"alloc"} ELSE {}) :
            \E lvl \in InitLevels(f) :
              /\ env' = [env EXCEPT !.inits = @ - 1,
                                    !.fails = IF f = "ok" THEN @ ELSE @ - 1]
              /\ p' = IF f = "alloc" THEN p ELSE InitPrivate(f, lvl)
              /\ hw' = [hw EXCEPT
                          !.our_flag = IF f \in {"gpio", "isr", "ok"}
                                       THEN FALSE ELSE @,
                          !.irq_pending = IF f = "ok" THEN FALSE ELSE @]
              /\ IF f = "ok" /\ hw.their_flag
                 THEN Jump("thr", "prep_cas",
                           [NoLoc EXCEPT !.op = "init", !.fn = "xchg",
                                         !.xnull = TRUE])
                 ELSE UNCHANGED <<pc, loc>>
              /\ obs' = [obs EXCEPT
                           !.nreq = IF f # "ok" THEN @
                                    ELSE IF hw.their_flag THEN 1 ELSE 0,
                           !.init_res = IF f = "ok" THEN SYMSPI_SUCCESS
                                        ELSE InitError(f),
                           !.init_fail = IF f = "ok" THEN @ ELSE f,
                           !.ninit = IF f = "ok" THEN Count(@) ELSE @,
                           !.tid = IF f = "ok" THEN SYMSPI_INITIAL_XFER_ID
                                   ELSE @,
                           !.tdone = IF f = "ok" THEN 0 ELSE @,
                           !.tfail = IF f = "ok" THEN 0 ELSE @,
                           !.halted = IF f = "ok" THEN FALSE ELSE @,
                           !.ret = IF f = "ok" THEN NULL ELSE @,
                           !.nid = IF f = "ok" THEN 1 ELSE @,
                           !.last_id = IF f = "ok" THEN p'.current_xfer.id
                                       ELSE @]
    /\ UNCHANGED <<cfg, cls>>

(* ---------------- symspi_close ------------------------------------ *)
\* the contexts which are about to make a symspi_switch_strict()
AtSwitch == { c \in Ctx : pc[c] \in SwitchLabels }

\* symspi_close(device) on a device symspi_init has returned for: the
\* compare-and-swap of close_request.  Every context inside
\* symspi_switch_strict() either has read the latch already (stale) or
\* reads it after this
ClCas ==
    /\ cls = "idle" /\ p.alive
    /\ ~(pc["thr"] # "idle" /\ loc["thr"].op = "init")
    /\ env.closes > 0
    /\ env' = [env EXCEPT !.closes = @ - 1]
    /\ IF p.close_request
       THEN /\ obs' = [obs EXCEPT !.cls_res = EALREADY]
            /\ UNCHANGED <<p, loc, cls>>
       ELSE /\ p' = [p EXCEPT !.close_request = TRUE]
            /\ \E S \in SUBSET AtSwitch :
                 loc' = [c \in Ctx |-> IF c \in S
                                       THEN [loc[c] EXCEPT !.stale = TRUE]
                                       ELSE loc[c]]
            /\ cls' = "cl_state"
            /\ obs' = [obs EXCEPT !.cls_res = ""]
    /\ UNCHANGED <<cfg, hw, pc>>

\* state == COLD: return SYMSPI_SUCCESS; state == XFER: wait for
\* final_leave_xfer_completion
ClState ==
    /\ cls = "cl_state"
    /\ IF p.state = SYMSPI_STATE_COLD
       THEN cls' = "idle" /\ obs' = [obs EXCEPT !.cls_res = SYMSPI_SUCCESS]
       ELSE /\ cls' = IF p.state = SYMSPI_STATE_XFER THEN "cl_wait" ELSE "cl_irq"
            /\ obs' = [obs EXCEPT !.cl_xfer = (p.state = SYMSPI_STATE_XFER
                                                /\ hw.spi_busy > 0)]
    /\ UNCHANGED <<cfg, p, hw, pc, loc, env>>

\* wait_for_completion_timeout(final_leave_xfer_completion): the
\* completion was fired, or SYMSPI_CLOSE_HW_WAIT_TIMEOUT_MSEC are over
ClWait ==
    /\ cls = "cl_wait"
    /\ \E fired \in BOOLEAN :
         /\ fired => p.completion > 0
         /\ p' = [p EXCEPT !.completion = IF fired THEN @ - 1 ELSE @]
    /\ cls' = "cl_irq"
    /\ UNCHANGED <<cfg, hw, pc, loc, env, obs>>

\* symspi_close_qpio_irqs() (free_irq waits for a running handler), then
\* symspi_our_flag_drop()
ClIrq ==
    /\ cls = "cl_irq"
    /\ pc["isr"] = "idle"
    /\ p' = [p EXCEPT !.irq = FALSE]
    /\ hw' = [hw EXCEPT !.irq_pending = FALSE, !.our_flag = FALSE]
    /\ cls' = "cl_cold"
    /\ UNCHANGED <<cfg, pc, loc, env, obs>>

\* __symspi_stop_timeout_timer_sync() (waits for a running handler), then
\* symspi_switch_state_val_forced(COLD)
ClCold ==
    /\ cls = "cl_cold"
    /\ pc["tmr"] = "idle"
    /\ p' = [p EXCEPT !.timer = FALSE, !.state = SYMSPI_STATE_COLD]
    /\ cls' = "cl_free"
    /\ UNCHANGED <<cfg, hw, pc, loc, env, obs>>

\* __symspi_cancel_work_sync() of the works (waits for a running work),
\* the workqueue is destroyed, the current xfer and the private data are
\* freed; a timer which is armed stays in the timer list of the kernel
ClFree ==
    /\ cls = "cl_free"
    /\ RunnerIdle
    /\ p' = [FreedPrivate EXCEPT !.timer = p.timer]
    /\ cls' = "idle"
    /\ obs' = [obs EXCEPT !.cls_res = SYMSPI_SUCCESS]
    /\ UNCHANGED <<cfg, hw, pc, loc, env>>

\* symspi_close(device) called by the consumer thread after another
\* thread has called it, while that call runs or after it has freed the
\* private data: SYMSPI_CHECK_DEVICE_AND_PRIVATE returns -ENODEV if there
\* are no private data
Close2Call ==
    /\ pc["thr"] = "idle"
    /\ cls # "idle" \/ (~p.alive /\ obs.cls_res = SYMSPI_SUCCESS)
    /\ env.closes > 0
    /\ env' = [env EXCEPT !.closes = @ - 1]
    /\ IF p.alive
       THEN /\ Jump("thr", "c2_cas", [NoLoc EXCEPT !.op = "close"])
            /\ obs' = [obs EXCEPT !.cls2_res = ""]
       ELSE /\ obs' = [obs EXCEPT !.cls2_res = ENODEV]
            /\ UNCHANGED <<pc, loc>>
    /\ UNCHANGED <<cfg, p, hw, cls>>

\* the compare-and-swap of close_request of that call: the latch is set
\* as long as the private data of the first call exist, return -EALREADY.
\* (Private data freed since the check: UseAfterFree)
C2Cas(c) ==
    /\ At(c, "c2_cas")
    /\ p.close_request
    /\ Jump(c, "idle", NoLoc)
    /\ obs' = [obs EXCEPT !.cls2_res = EALREADY]
    /\ UNCHANGED <<cfg, p, hw, cls, env>>

\* a context which is inside the driver when the private data are freed
\* goes on with freed memory: anything may happen
UseAfterFree(c) ==
    /\ ~p.alive
    /\ pc[c] \notin {"idle", "crashed", "rs_close"}
    /\ pc' = [pc EXCEPT ![c] = "crashed"]
    /\ UNCHANGED <<cfg, p, hw, loc, cls, env, obs>>

(* ---------------- symspi_reset ------------------------------------ *)
\* symspi_is_current_xfer_ok()
symspi_is_current_xfer_ok ==
    p.alive /\ p.current_xfer.size_bytes > 0

\* the default_xfer arguments of symspi_reset
ResetXfers == {NULL} \cup CallbackXfers

\* a symspi_reset which goes back to the default xfer of symspi_init
ResetTemplateDefault(x) == IF x = NULL THEN DefaultXfer ELSE x

\* the xfer symspi_reset(device, x) goes on with: x, or for NULL the copy
\* symspi_xfer_init_copy makes of the current xfer if that one is ok
ResetTemplate(x) ==
    IF symspi_is_current_xfer_ok /\ x = NULL
    THEN ConsumerXfer(p.current_xfer.size_bytes, p.current_xfer.data_tx, FALSE)
    ELSE x

\* symspi_reset(device, default_xfer) called by the consumer thread on a
\* device symspi_init has returned for, up to the compare-and-swap of
\* close_request in symspi_close: without an xfer to go on with it
\* returns the error of symspi_verify_consumer_input; if the latch is set
\* already symspi_close returns -EALREADY and symspi_init is next
ResetCall ==
    /\ cls = "idle" /\ pc["thr"] = "idle" /\ p.alive
    /\ env.closes > 0
    /\ env' = [env EXCEPT !.closes = @ - 1]
    /\ \E x \in ResetXfers :
         LET t == ResetTemplate(x)
             l == [NoLoc EXCEPT !.op = "reset", !.xfer = t]
             o == [obs EXCEPT !.reset =
                     [ null |-> FALSE, x |-> x,
                       cur |-> ConsumerXfer(p.current_xfer.size_bytes,
                                            p.current_xfer.data_tx, FALSE) ]]
         IN  IF t = NULL
             THEN /\ obs' = [o EXCEPT !.init_res = SYMSPI_ERROR_NO_XFER]
                  /\ UNCHANGED <<p, pc, loc, cls>>
             ELSE /\ pc' = [pc EXCEPT !["thr"] = "rs_close"]
                  /\ IF p.close_request
                     THEN /\ obs' = [o EXCEPT !.cls_res = EALREADY]
                          /\ loc' = [loc EXCEPT !["thr"] = l]
                          /\ UNCHANGED <<p, cls>>
                     ELSE /\ p' = [p EXCEPT !.close_request = TRUE]
                          /\ \E S \in SUBSET AtSwitch :
                               loc' = [c \in Ctx |->
                                         IF c = "thr" THEN l
                                         ELSE IF c \in S
                                         THEN [loc[c] EXCEPT !.stale = TRUE]
                                         ELSE loc[c]]
                          /\ cls' = "cl_state"
                          /\ obs' = [o EXCEPT !.cls_res = ""]
    /\ UNCHANGED <<cfg, hw>>

\* symspi_reset after symspi_close has returned: symspi_init(device,
\* default_xfer) with the xfer of ResetCall, while nothing else of the
\* driver runs.  It reuses private data which are still there, else it
\* makes the full initialization with that xfer as the current one
RsInit ==
    /\ pc["thr"] = "rs_close" /\ cls = "idle"
    /\ \A c \in Ctx \ {"thr"} : pc[c] = "idle"
    /\ ~p.timer /\ hw.spi_busy = 0
    /\ IF p.alive
       THEN /\ obs' = [obs EXCEPT !.init_res = SYMSPI_SUCCESS]
            /\ pc' = [pc EXCEPT !["thr"] = "idle"]
            /\ loc' = [loc EXCEPT !["thr"] = NoLoc]
            /\ UNCHANGED <<p, hw>>
       ELSE LET fresh == InitPrivate("ok", SYMSPI_INIT_LEVEL_FULL)
                l == loc["thr"]
            IN  /\ p' = [fresh EXCEPT !.current_xfer =
                            [symspi_xfer_init_copy(l.xfer)
                                 EXCEPT !.id = fresh.current_xfer.id]]
                /\ hw' = [hw EXCEPT !.our_flag = FALSE, !.irq_pending = FALSE]
                /\ IF hw.their_flag
                   THEN Jump("thr", "prep_cas",
                             [l EXCEPT !.fn = "xchg", !.xnull = TRUE])
                   ELSE Jump("thr", "idle", NoLoc)
                /\ obs' = [obs EXCEPT
                             !.nreq = IF hw.their_flag THEN 1 ELSE 0,
                             !.init_res = SYMSPI_SUCCESS,
                             !.ninit = Count(@),
                             !.tid = SYMSPI_INITIAL_XFER_ID,
                             !.tdone = 0, !.tfail = 0, !.halted = FALSE,
                             !.ret = NULL, !.nid = 1,
                             !.last_id = p'.current_xfer.id]
    /\ UNCHANGED <<cfg, cls, env>>

(* ---------------- the next-state relations ------------------------ *)
\* a step of context c inside the driver
Step(c) ==
    \/ PrepCas(c) \/ PrepFail(c) \/ PrepUpd(c)
    \/ WpFlag(c) \/ WpCas(c) \/ WpTimer(c) \/ WpRd(c)
    \/ LpCas(c) \/ LpRdy(c) \/ RdyCas(c) \/ DoXfer(c)
    \/ TiTimer(c) \/ TiCas(c) \/ TiRd(c) \/ TiClr(c)
    \/ EhSw(c) \/ EhRec(c) \/ EhX1(c) \/ EhX3(c)
    \/ CbCas(c) \/ CbErr(c)
    \/ PpCb(c) \/ PpDrop(c)
    \/ RcPulse(c) \/ RcCb(c) \/ RcFin(c)

\* the driver without calls of the consumer other than symspi_init and
\* without the flag line of the other side
NextDriver ==
    \/ SymspiInit \/ TimerFire \/ BusDone
    \/ PpStart \/ RcStart
    \/ \E c \in Ctx : Step(c)

\* the driver and its consumer
NextQuiet == NextDriver \/ ApiCall

\* the other side and the ISR of its flag
NextFlag == PeerEdge \/ Isr \/ IsCas("isr")

\* the driver between symspi_init and symspi_close
Next == NextQuiet \/ NextFlag

\* the driver which only the other side talks to
NextPeer == NextDriver \/ NextFlag

\* the driver and the consumer which asks for one transfer of new data
NextIds == NextDriver \/ NextFlag \/ IdCall

\* the driver with symspi_close and a consumer which asks for a transfer
\* of the default data or of new data of the same size
NextClose ==
    \/ NextDriver \/ RecoverCall
    \/ ClCas \/ ClState \/ ClWait \/ ClIrq \/ ClCold \/ ClFree
    \/ \E c \in Ctx : EhSpin(c) \/ UseAfterFree(c)

\* the driver with symspi_close and a consumer which asks for one
\* transfer of new data
NextSpin ==
    \/ NextDriver \/ IdCall
    \/ ClCas \/ ClState \/ ClWait \/ ClIrq \/ ClCold \/ ClFree
    \/ \E c \in Ctx : EhSpin(c) \/ UseAfterFree(c)

\* the driver over the life of the device: symspi_init and symspi_close
\* again and again, no other call of the consumer
NextLife ==
    \/ NextDriver \/ NextFlag
    \/ ClCas \/ ClState \/ ClWait \/ ClIrq \/ ClCold \/ ClFree
    \/ Close2Call \/ C2Cas("thr")
    \/ \E c \in Ctx : EhSpin(c) \/ UseAfterFree(c)

\* the driver with a consumer which updates and then asks
NextSeq == NextDriver \/ NextFlag \/ SeqCall

NextRecover == NextDriver \/ NextFlag \/ RecoverCall

\* the driver with a consumer which changes the size of the xfer
NextSize == NextDriver \/ NextFlag \/ SizeCall

\* the driver with a consumer which resets it, the other side moves its
\* flag line
NextReset ==
    \/ NextDriver \/ NextFlag
    \/ ResetCall \/ ClState \/ ClWait \/ ClIrq \/ ClCold \/ ClFree \/ RsInit
    \/ \E c \in Ctx : EhSpin(c) \/ UseAfterFree(c)

\* the driver and its consumer with a wait timer which always expires
NextWait ==
    \/ SymspiInit \/ SeqCall \/ TimerExpiry \/ BusDone
    \/ PpStart \/ RcStart
    \/ \E c \in Ctx : Step(c)

\* what the scheduling of the kernel guarantees: a context inside the
\* driver goes on, an armed timer expires, a queued work is started, the
\* SPI layer completes a message it has accepted
FairDriver ==
    /\ \A c \in Ctx : WF_vars(Step(c))
    /\ WF_vars(PpStart) /\ WF_vars(RcStart)
    /\ WF_vars(BusDone)

Fairness == FairDriver /\ WF_vars(TimerExpiry)

\* a pending interrupt of the flag line of the other side is delivered
\* and its handler goes on
FairInterrupt == FairDriver /\ WF_vars(Isr) /\ WF_vars(IsCas("isr"))

\* symspi_close goes on as well, and a context which runs on freed
\* memory does not run for ever
FairClose ==
    /\ FairDriver
    /\ WF_vars(ClState) /\ WF_vars(ClWait) /\ WF_vars(ClIrq)
    /\ WF_vars(ClCold) /\ WF_vars(ClFree)
    /\ \A c \in Ctx : WF_vars(UseAfterFree(c))

Spec == Init /\ [][Next]_vars

SpecRoles == InitRoles /\ [][Next]_vars

SpecPeer == InitPeer /\ [][NextPeer]_vars

SpecClose == InitClose /\ [][NextClose]_vars

SpecLife == InitLife /\ [][NextLife]_vars

SpecSeq == InitSeq /\ [][NextSeq]_vars

SpecWait == InitWait /\ [][NextWait]_vars /\ Fairness

SpecRecover == InitRecover /\ [][NextRecover]_vars /\ FairInterrupt

SpecSize == Init /\ [][NextSize]_vars

SpecReset == InitReset /\ [][NextReset]_vars

SpecIds == InitIds /\ [][NextIds]_vars

SpecSpin == InitClose /\ [][NextSpin]_vars /\ FairClose

SpecAssert == InitPeer /\ [][NextPeer]_vars /\ FairInterrupt

(* ---------------- the properties --------------------------------- *)
\* no context is inside the driver and no work is queued
AllIdle ==
    /\ p.alive
    /\ \A c \in Ctx : pc[c] = "idle"
    /\ p.work = {}

\* the device rests in IDLE state: nothing runs, nothing is queued,
\* no interrupt is pending, the timer is not armed, the bus is idle
Settled ==
    /\ AllIdle
    /\ p.state = SYMSPI_STATE_IDLE
    /\ ~hw.irq_pending /\ ~p.timer /\ hw.spi_busy = 0

\* the states in which the driver is inside a transfer cycle
ActiveStates ==
    { SYMSPI_STATE_XFER_PREPARE, SYMSPI_STATE_WAITING_PREV,
      SYMSPI_STATE_WAITING_RDY, SYMSPI_STATE_XFER,
      SYMSPI_STATE_POSTPROCESSING }

\* the consumer thread makes a step inside an API call
ThrStep ==
    /\ pc["thr"] # "idle"
    /\ loc["thr"].op \in {"xchg", "upd"}
    /\ pc'["thr"] # pc["thr"]

\* only the other side acted on the driver, it kept to the protocol, and
\* no error was handled
PeerOnly == ~obs.err /\ ~obs.glitch /\ env.events = env.edges

C2_OneCallbackPerXfer ==
    obs.thr_res.code = "ID" => obs.tdone + obs.tfail <= 1

\* C3: an exchange call without force_size_change, made in IDLE state with
\* a xfer whose size differs from the size of the current xfer, returns
\* the error XFER_SIZE_MISMATCH and no xfer id.
C3_SizeMismatchReturned ==
    (obs.thr_call.op = "xchg"
        /\ obs.thr_rej = SYMSPI_ERROR_XFER_SIZE_MISMATCH
        /\ obs.thr_res # NoRes)
    => obs.thr_res.code = SYMSPI_ERROR_XFER_SIZE_MISMATCH

\* C4: an exchange or update call whose xfer is refused for an input error
\* leaves the current xfer, the next xfer id and the level of our flag as
\* they are and submits no bus transfer.
C4_RefusedCallChangesNothing ==
    [][ (ThrStep /\ obs'.thr_rej \notin {"", SYMSPI_SUCCESS})
        => /\ p'.current_xfer = p.current_xfer
           /\ p'.next_xfer_id = p.next_xfer_id
           /\ hw'.our_flag = hw.our_flag
           /\ hw'.spi_busy = hw.spi_busy ]_vars

\* C5: an exchange(NULL) call which returned NOT_READY because the state
\* was not IDLE is not lost: when the device has come to rest in IDLE
\* state afterwards, a new bus transfer was started for it.
C5_DelayedRequestServed ==
    (Settled
        /\ obs.thr_call.op = "xchg" /\ obs.thr_call.xfer = NULL
        /\ obs.thr_res.code = FULL_DUPLEX_ERROR_NOT_READY)
    => obs.sub_after

\* C6: on the master which listens to both edges, with the other side
\* keeping to the protocol and no consumer call: the requests of the other
\* side are never answered by more bus transfers than there were requests,
\* and when the device has come to rest in IDLE state every request was
\* answered by a bus transfer.
C6_PeerRequestAnsweredOnce ==
    (PeerOnly /\ ~cfg.hardware_spi_rdy)
    => /\ obs.nsub <= obs.nreq
       /\ Settled => obs.nsub >= obs.nreq

\* C7: whenever no context is inside the driver, our flag is asserted in
\* the states XFER_PREPARE, WAITING_PREV, WAITING_RDY, XFER and
\* POSTPROCESSING and deasserted in the states COLD and IDLE.
C7_OurFlagFollowsState ==
    AllIdle
    => /\ p.state \in ActiveStates => hw.our_flag
       /\ p.state \in {SYMSPI_STATE_COLD, SYMSPI_STATE_IDLE} => ~hw.our_flag

\* C8: after symspi_close returned success the state is COLD, the private
\* data and the buffers are freed, and neither the timer nor a work of
\* the device is pending.
C8_ClosedDeviceIsQuiet ==
    (obs.cls_res = SYMSPI_SUCCESS /\ cls = "idle")
    => /\ ~p.alive /\ p.state = SYMSPI_STATE_COLD
       /\ ~p.timer /\ p.work = {}

\* C9: when symspi_close found the device in XFER state with the bus
\* transfer in flight and the transfer completes, the completion callback
\* of the SPI layer returns: it never stays in the loop of the error
\* handler.
C9_CallbackReturnsWhileClosing ==
    obs.cl_xfer => pc["spi"] # "eh_spin"

\* C10: once the closing latch is set no state transition happens but one
\* which leaves XFER or the forced switch to COLD, and no bus transfer is
\* submitted.
C10_ClosingLatchFreezesState ==
    [][ (p.close_request /\ p'.alive)
        => /\ \/ p'.state = p.state
              \/ p.state = SYMSPI_STATE_XFER
              \/ (cls = "cl_cold" /\ cls' = "cl_free")
           /\ hw'.spi_busy <= hw.spi_busy ]_vars

\* the consumer's second symspi_close has crashed on freed private data
SecondCloseCrashed == pc["thr"] = "crashed" /\ loc["thr"].op = "close"

\* C11: a symspi_close called after the first symspi_close, be it while
\* the first one runs or after it has returned, returns -EALREADY (and
\* does not run into the teardown of the first one)
C11_SecondCloseAlreadyClosing ==
    /\ obs.cls2_res \in {"", EALREADY}
    /\ ~SecondCloseCrashed

\* C12: when symspi_init has failed at a step after the allocation of
\* the private data, the private data are released when it returns, and
\* a later symspi_init which returns success has made the full
\* initialization
C12_FailedInitUnwinds ==
    obs.init_fail \in InitFailures =>
        /\ obs.init_res # SYMSPI_SUCCESS => ~p.alive
        /\ obs.init_res = SYMSPI_SUCCESS =>
              /\ p.alive /\ p.init_level = SYMSPI_INIT_LEVEL_FULL
              /\ p.state # SYMSPI_STATE_COLD

\* a step in which a symspi_init which made the full initialization of
\* a device closed before returns: at once, or after the
\* symspi_data_xchange(NULL, false) it makes with their flag set
ReInitReturns ==
    /\ obs.cls_res = SYMSPI_SUCCESS
    /\ pc'["thr"] = "idle"
    /\ \/ ~p.alive /\ p'.alive /\ p'.init_level = SYMSPI_INIT_LEVEL_FULL
       \/ pc["thr"] # "idle" /\ loc["thr"].op = "init" /\ p.alive

\* IDLE, the closing latch clear, the ids restarted from the seed, the
\* drop counter 1, the statistics zero
FreshDevice ==
    /\ p.state = SYMSPI_STATE_IDLE
    /\ ~p.close_request
    /\ p.current_xfer.id = SYMSPI_INITIAL_XFER_ID
    /\ p.next_xfer_id = SYMSPI_INITIAL_XFER_ID + 1
    /\ p.their_flag_drop_counter = 1
    /\ ~p.counted

ExchangeAfterUpdate ==
    /\ obs.prev_call.op = "upd"
    /\ obs.prev_res.code = SYMSPI_SUCCESS
    /\ obs.thr_call.op = "xchg" /\ obs.thr_call.xfer = NULL
    /\ obs.nsub = 0 /\ ~obs.err

\* symspi_default_data_update(x), the first call of the consumer, has
\* returned success, with no error handled and no request of the other
\* side
UpdateReturned ==
    /\ pc["thr"] = "idle"
    /\ obs.thr_call.op = "upd" /\ obs.prev_call = NoCall
    /\ obs.thr_res.code = SYMSPI_SUCCESS
    /\ ~obs.err /\ obs.nreq = 0

\* C14: from IDLE, after symspi_default_data_update(x) has returned
\* success the state is IDLE again and no bus transfer was started; and
\* the bus transfer which the next symspi_data_xchange(NULL) submits has
\* the size and the TX data of x.
C14_UpdateThenExchangeSendsX ==
    /\ [](UpdateReturned =>
            /\ p.state = SYMSPI_STATE_IDLE
            /\ hw.spi_busy = 0)
    /\ [][ (ExchangeAfterUpdate /\ hw'.spi_busy = hw.spi_busy + 1)
           => /\ p.current_xfer.size_bytes = obs.prev_call.xfer.size_bytes
              /\ p.current_xfer.data_tx = obs.prev_call.xfer.data_tx ]_vars

\* the states in which the driver waits for the other side
WaitingStates == { SYMSPI_STATE_WAITING_PREV, SYMSPI_STATE_WAITING_RDY }

\* C15: with an armed timer which expires and contexts and works which
\* run, and without any edge of the flag of the other side, the state
\* WAITING_PREV or WAITING_RDY is always left again.
C15_WaitIsBounded ==
    (p.alive /\ p.state \in WaitingStates)
        ~> ~(p.alive /\ p.state \in WaitingStates)

\* the recovery of the device is on its way: an error handler is about
\* to schedule recover_work, or recover_work is queued or running
RecoveryPending ==
    \/ \E c \in Ctx : pc[c] = "eh_rec"
    \/ "rec" \in p.work
    \/ pc["rec"] # "idle"

PeerAsserted ==
    /\ PeerOnly /\ AllIdle
    /\ p.state = SYMSPI_STATE_IDLE /\ p.their_flag_drop_counter = 1
    /\ ~p.delayed_xfer_request
    /\ hw.their_flag /\ obs.pend
    /\ ~hw.our_flag /\ hw.spi_busy = 0 /\ ~p.timer

\* the default xfer is on the bus
DefaultSubmitted ==
    /\ p.state = SYMSPI_STATE_XFER /\ hw.spi_busy = 1
    /\ p.current_xfer.id = SYMSPI_INITIAL_XFER_ID
    /\ hw.our_flag

\* the done callback of the default xfer was called once for every
\* transfer which was submitted
CalledBack == obs.tdone = obs.nsub

\* once the default xfer is on the bus the done callback gets called and
\* our flag dropped; the callback is never called more often than
\* transfers were submitted, and our flag is dropped only by the
\* postprocessing after the callback has returned
ServedInOrder ==
    /\ (DefaultSubmitted /\ PeerOnly)
           ~> ((CalledBack /\ ~hw.our_flag) \/ ~PeerOnly)
    /\ [](PeerOnly /\ obs.nsub <= 2 => obs.tdone <= obs.nsub)
    /\ [][ (PeerOnly /\ hw.our_flag /\ ~hw'.our_flag)
           => (pc["post"] = "pp_drop" /\ CalledBack) ]_vars

SecondDropInWaitingPrev ==
    /\ pc["isr"] = "eh_sw"
    /\ loc["isr"].err = SYMSPI_ERROR_OTHER_SIDE
    /\ p.state = SYMSPI_STATE_WAITING_PREV
    /\ p.their_flag_drop_counter >= 2
    /\ env.events = 0

\* the error is recorded, the state is ERROR and recover_work is queued
OtherSideRecorded ==
    /\ p.state = SYMSPI_STATE_ERROR
    /\ p.last_error = SYMSPI_ERROR_OTHER_SIDE
    /\ "rec" \in p.work

\* recover_work is about to switch from ERROR to IDLE: the error
\* indication is complete, our flag is dropped, the drop counter is 1
\* and last_error is cleared
RecoveryAtSwitch ==
    /\ pc["rec"] = "ti_cas" /\ loc["rec"].orig = SYMSPI_STATE_ERROR
    /\ loc["rec"].n = ErrorPulseEdges /\ ~hw.our_flag
    /\ p.state = SYMSPI_STATE_ERROR
    /\ p.their_flag_drop_counter = 1
    /\ p.last_error = SYMSPI_SUCCESS

\* recover_work has switched from ERROR to IDLE
RecoveredToIdle ==
    /\ pc["rec"] = "ti_rd" /\ loc["rec"].orig = SYMSPI_STATE_ERROR
    /\ p.state = SYMSPI_STATE_IDLE

\* the edges of our flag in the recovery of such an error: recover_work
\* starts with a drop of our flag, which was set; each further step of
\* the error indication is an edge, to the level of its number; nothing
\* else moves our flag from the switch to ERROR to the end of the
\* indication, which has ErrorPulseEdges edges; the fail callback is
\* called only after the last edge, once
RecoveryEdges ==
    /\ [][ (obs.wp_err /\ pc["rec"] = "idle" /\ pc'["rec"] = "rc_pulse")
           => (hw.our_flag /\ ~hw'.our_flag /\ loc'["rec"].n = 1) ]_vars
    /\ [][ (obs.wp_err /\ pc["rec"] = "rc_pulse"
                       /\ loc'["rec"].n # loc["rec"].n)
           => /\ loc'["rec"].n = loc["rec"].n + 1
              /\ hw'.our_flag = ~hw.our_flag
              /\ hw'.our_flag = PulseLevel(loc'["rec"].n) ]_vars
    /\ [][ (obs.wp_err /\ hw'.our_flag # hw.our_flag)
           => \/ pc["rec"] = "idle" /\ pc'["rec"] = "rc_pulse"
              \/ pc["rec"] = "rc_pulse"
                 /\ loc'["rec"].n = loc["rec"].n + 1 ]_vars
    /\ [][ (obs.wp_err /\ pc["rec"] = "rc_pulse" /\ pc'["rec"] # "rc_pulse")
           => (pc'["rec"] = "rc_cb" /\ loc'["rec"].n = ErrorPulseEdges) ]_vars
    /\ [][ (obs.wp_err /\ obs'.tfail # obs.tfail)
           => /\ pc["rec"] = "rc_cb" /\ loc["rec"].n = ErrorPulseEdges
              /\ ~hw.our_flag /\ obs'.tfail = obs.tfail + 1 ]_vars

\* C18: when the handler of a second falling edge of their flag is
\* dispatched in WAITING_PREV state, the OTHER_SIDE error is recorded and
\* the state becomes ERROR; recover_work moves our flag by exactly the
\* edges drop, set, drop, set, drop, then calls the fail callback (if set)
\* once, sets the drop counter to 1, clears last_error and switches from
\* ERROR to IDLE.
C18_SecondDropRecovered ==
    /\ SecondDropInWaitingPrev ~> OtherSideRecorded
    /\ (SecondDropInWaitingPrev /\ obs.tfail = 0)
           ~> (RecoveryAtSwitch
               /\ obs.tfail = IF p.current_xfer.fail_callback
                                 /\ p.current_xfer.id = obs.tid
                              THEN 1 ELSE 0)
    /\ RecoveryAtSwitch ~> RecoveredToIdle
    /\ RecoveryEdges

\* the recovery of a second falling edge which came in WAITING_PREV state
\* has called the fail callback and is about to switch to IDLE
C18_Witness ==
    /\ RecoveryAtSwitch /\ obs.wp_err /\ obs.tfail = 1 /\ env.events = 0
    /\ obs.thr_call.op = "xchg" /\ obs.thr_call.xfer # NULL

\* the first call of the consumer after symspi_init is a
\* symspi_data_xchange with a new xfer which symspi_replace_xfer has
\* accepted (not empty, of the size of the current one, no overlap of
\* the TX buffers); since then the other side has
\* kept to the protocol, no error was handled, the SPI layer has not
\* failed, the callbacks have returned NULL, and no other bus transfer
\* than the one of the call was submitted
FirstExchange ==
    /\ obs.ninit = 1 /\ obs.prev_call = NoCall
    /\ obs.thr_call.op = "xchg" /\ obs.thr_call.xfer # NULL
    /\ obs.thr_rej = SYMSPI_SUCCESS
    /\ PeerOnly /\ obs.nsub <= 1

\* the done callback of the xfer of the call is called
DoneCalled == obs'.tdone > obs.tdone

\* the call has returned the id of its xfer and the device rests again
ExchangeOver == Settled /\ obs.thr_res.code = "ID"

\* C19 as stated: after symspi_init (the default xfer has the id 1) and
\* one symspi_data_xchange with a new xfer accepted in IDLE state, the
\* done callback of that xfer is called exactly once, and the
\* next_xfer_id it is given is 2.
C19_DoneOnceNextIdTwo ==
    /\ [][ (FirstExchange /\ DoneCalled)
           => /\ obs.tdone = 0
              /\ p.next_xfer_id = SYMSPI_INITIAL_XFER_ID + 1 ]_vars
    /\ [](FirstExchange /\ ExchangeOver => obs.tdone = 1)

\* C19 amended: after symspi_init (the default xfer has the id 1) and one
\* symspi_data_xchange with a new xfer accepted in IDLE state, that xfer
\* has the id 2, its done callback is called exactly once, and the
\* next_xfer_id it is given is 3.
C19_DoneOnceNextIdThree ==
    /\ [][ (FirstExchange /\ DoneCalled)
           => /\ obs.tdone = 0
              /\ p.current_xfer.id = SYMSPI_INITIAL_XFER_ID + 1
              /\ p.next_xfer_id = SYMSPI_INITIAL_XFER_ID + 2 ]_vars
    /\ [](FirstExchange /\ ExchangeOver
            => obs.tdone = 1 /\ obs.thr_res.id = SYMSPI_INITIAL_XFER_ID + 1)

\* the exchange is over and the done callback of its xfer was called
C19_Witness ==
    /\ FirstExchange /\ ExchangeOver
    /\ obs.tdone = 1 /\ obs.nsub = 1
    /\ p.next_xfer_id = SYMSPI_INITIAL_XFER_ID + 2

\* symspi_their_flag_drop_isr_sequence which has counted the drop counter
\* to 2 or more returns from __symspi_error_handle
DropHandlerReturns ==
    /\ pc["isr"] # "idle" /\ pc'["isr"] = "idle"
    /\ loc["isr"].fn = "drop"

C21_HaltedDeviceStays ==
    /\ [](obs.halted => hw.our_flag /\ hw.spi_busy = 0)
    /\ [][ obs.halted => /\ p'.state = p.state
                         /\ hw'.our_flag = hw.our_flag
                         /\ hw'.spi_busy = hw.spi_busy ]_vars

\* symspi_init has allocated the private data and gone through all of
\* its steps
InitSucceeds == ~p.alive /\ p'.alive /\ p'.state = SYMSPI_STATE_IDLE

\* the xfer x of the device is a copy of the xfer t of the consumer: the
\* size, the TX data, and the two callbacks, which the consumer has set
\* in every xfer it hands in
CopyOfConsumerXfer(x, t) ==
    /\ x.size_bytes = t.size_bytes /\ x.data_tx = t.data_tx
    /\ x.done_callback /\ x.fail_callback

\* C22: after a successful symspi_init(default_xfer) the current xfer of
\* the device is a copy of default_xfer: size, TX data, done callback and
\* fail callback are those of default_xfer.
C22_InitCopiesDefaultXfer ==
    [][ InitSucceeds => CopyOfConsumerXfer(p'.current_xfer, DefaultXfer) ]_vars

\* symspi_reset returns from its symspi_init: at once, or after the
\* symspi_data_xchange(NULL, false) symspi_init makes with their flag set
ResetReturns ==
    /\ pc["thr"] # "idle" /\ loc["thr"].op = "reset"
    /\ pc'["thr"] = "idle"

\* symspi_init inside symspi_reset makes the initialization of the
\* device symspi_close has freed
ResetInits == pc["thr"] = "rs_close" /\ ~p.alive /\ p'.alive

\* the xfer the device is to have after the last symspi_reset: the one
\* handed in, for NULL the current xfer of the time of the call
ResetXfer == IF obs.reset.x = NULL THEN obs.reset.cur ELSE obs.reset.x

\* the device is in IDLE state with an xfer of the size and the TX data
\* the reset is to give it
IdleWithResetXfer ==
    /\ p.alive /\ p.state = SYMSPI_STATE_IDLE
    /\ p.current_xfer.size_bytes = ResetXfer.size_bytes
    /\ p.current_xfer.data_tx = ResetXfer.data_tx

StartsNext == pc["post"] \notin {"idle", "pp_cb"} /\ loc["post"].si

\* the done callback has returned with start_immediately set and our
\* flag is to be dropped next
StartImmediately == StartsNext /\ pc["post"] = "pp_drop"

\* the current xfer has the size and the TX data of the xfer x
Carries(x) ==
    /\ p.current_xfer.size_bytes = x.size_bytes
    /\ p.current_xfer.data_tx = x.data_tx

\* the xfer the done callback has returned is the current one, and the
\* current xfer stays as it is while the device starts the next transfer
CarriesReturnedXfer ==
    /\ [](StartsNext /\ loc["post"].xfer # NULL => Carries(loc["post"].xfer))
    /\ [][ StartsNext /\ StartsNext' => Carries(p.current_xfer)' ]_vars

\* the same as long as no error is handled
CarriesReturnedXferNoError ==
    /\ [](StartsNext /\ loc["post"].xfer # NULL /\ ~obs.err
            => Carries(loc["post"].xfer))
    /\ [][ StartsNext /\ StartsNext' /\ ~obs'.err
             => Carries(p.current_xfer)' ]_vars

DoneReturnsXfer ==
    /\ pc["post"] = "pp_cb" /\ pc'["post"] # "pp_cb"
    /\ obs'.ret # NULL /\ loc'["post"].xfer = obs'.ret

\* a bus transfer is submitted
Submitted == hw'.spi_busy > hw.spi_busy

Updates(c) ==
    /\ pc[c] \in {"prep_upd", "pp_cb", "rc_cb"} /\ pc'[c] # pc[c]
    /\ p.alive /\ obs'.nid > obs.nid

\* the xfer and the force_size_change of that call
UpdateArg(c) == IF pc[c] = "prep_upd" THEN loc[c].xfer ELSE loc'[c].xfer
UpdateForce(c) == IF pc[c] = "prep_upd" THEN loc[c].force ELSE TRUE

\* the xfer x is not empty, its TX buffer does not overlap the current
\* one, and it has not the size of the current xfer
OfOtherSize(x) ==
    /\ x.size_bytes > 0 /\ ~x.overlap
    /\ x.size_bytes # p.current_xfer.size_bytes

\* symspi_replace_xfer in context c ends as it must when the size may
\* change in the states of the set S also without force_size_change:
\* either the xfer of the call becomes the current one, or the current
\* one stays as it is and the result is XFER_SIZE_MISMATCH
ReplacesBySize(c, S) ==
    LET x == UpdateArg(c)
    IN  IF UpdateForce(c) \/ p.state \in S
        THEN /\ p'.current_xfer.size_bytes = x.size_bytes
             /\ p'.current_xfer.data_tx = x.data_tx
             /\ c = "thr" => obs'.thr_rej = SYMSPI_SUCCESS
        ELSE /\ p'.current_xfer = p.current_xfer
             /\ c = "thr" => obs'.thr_rej = SYMSPI_ERROR_XFER_SIZE_MISMATCH

InitOnInitialized == p.alive /\ env'.inits < env.inits

\* C27: symspi_init called on a device which is initialized already
\* returns SYMSPI_SUCCESS and changes nothing: the state, the current
\* xfer, next_xfer_id, the drop counter, the statistics and the lines are
\* what they were before the call.
C27_InitAgainChangesNothing ==
    [][ InitOnInitialized
          => /\ p' = p /\ hw' = hw /\ pc' = pc
             /\ obs'.init_res = SYMSPI_SUCCESS ]_vars

\* symspi_init was called twice with no symspi_close and no failure, the
\* second time on a device which had handled an error and counted a
\* second drop of their flag
C27_Witness ==
    /\ env.inits = MaxLifeInits - 2 /\ env.closes = MaxLifeCloses
    /\ env.fails = MaxInitFailures /\ obs.ninit = 1
    /\ obs.init_res = SYMSPI_SUCCESS
    /\ p.alive /\ p.counted /\ p.their_flag_drop_counter # 1

\* the id which follows the id last: one more, and the seed after the
\* largest positive value
IdAfter(last) ==
    IF last = IntMax THEN SYMSPI_INITIAL_XFER_ID ELSE last + 1

\* symspi_get_next_xfer_id gives out an id in this step
IdGiven == obs'.nid > obs.nid

WalkLabels == {"eh_sw", "eh_spin", "eh_x1", "eh_x3", "eh_rec"}

\* C29: every call of __symspi_error_handle gets out of its loop over
\* the states, whatever the state of the device is and whether or not
\* the device closes, also in the timer handler and in the callback of
\* the SPI layer while symspi_close runs.
C29_ErrorHandleReturns ==
    \A c \in Ctx : (pc[c] \in WalkLabels) ~> (pc[c] \notin WalkLabels)

\* the callback of the SPI layer switches the state in this step
BusCompletes == pc["spi"] = "cb_cas" /\ pc'["spi"] # "cb_cas"

\* a call of __symspi_error_handle has found the state XFER and has not
\* returned yet
XferErrorRaised == \E c \in Ctx : pc[c] \in {"eh_x1", "eh_x3"}

\* the done callback of the current xfer is called in this step
DoneCallbackRuns ==
    /\ pc["post"] = "pp_cb" /\ pc'["post"] # "pp_cb"
    /\ p.alive /\ p.current_xfer.done_callback

\* C30: an error reported while the state is XFER leaves the state as it
\* is: only the callback of the SPI layer takes the device out of XFER.
\* After that callback the device goes from POSTPROCESSING to ERROR and to
\* no other state, and the done callback is not called for the transfer,
\* however the error handler and the callback of the SPI layer interleave
\* (checked for the first transfer, as long as the error handler has not
\* returned).
C30_XferErrorPostponed ==
    [][ /\ (p.state = SYMSPI_STATE_XFER /\ p'.state # SYMSPI_STATE_XFER)
           => BusCompletes
        /\ (XferErrorRaised /\ obs.nsub <= 1)
           => /\ ~DoneCallbackRuns
              /\ (p.state = SYMSPI_STATE_POSTPROCESSING
                  /\ p'.state # SYMSPI_STATE_POSTPROCESSING)
                 => p'.state = SYMSPI_STATE_ERROR ]_vars

\* spi_async() rejects the message of context c in this step: the context
\* leaves symspi_do_xfer and no transfer has been handed to the SPI layer
SubmissionRejected(c) ==
    /\ pc[c] = "do_xfer" /\ pc'[c] # "do_xfer"
    /\ p.alive /\ hw'.spi_busy = hw.spi_busy

\* C31: when the SPI layer rejects the submission of the transfer, the
\* submitting context raises SYMSPI_ERROR_SPI through the error handler,
\* on every path which leads to symspi_do_xfer (consumer thread, ISR of
\* the peer flag, timer, postprocessing and recovery work).
C31_RejectionRaisesSpiError ==
    [][ \A c \in Ctx :
          SubmissionRejected(c)
          => pc'[c] = "eh_sw" /\ loc'[c].err = SYMSPI_ERROR_SPI ]_vars

\* the state word changes in this step
StateChanges == p'.state # p.state

\* the transitions of the state transition table between two given states
TableTransitions ==
    { <<SYMSPI_STATE_COLD, SYMSPI_STATE_IDLE>>,
      <<SYMSPI_STATE_IDLE, SYMSPI_STATE_XFER_PREPARE>>,
      <<SYMSPI_STATE_XFER_PREPARE, SYMSPI_STATE_WAITING_PREV>>,
      <<SYMSPI_STATE_WAITING_PREV, SYMSPI_STATE_XFER>>,
      <<SYMSPI_STATE_WAITING_PREV, SYMSPI_STATE_WAITING_RDY>>,
      <<SYMSPI_STATE_WAITING_RDY, SYMSPI_STATE_XFER>>,
      <<SYMSPI_STATE_XFER, SYMSPI_STATE_POSTPROCESSING>>,
      <<SYMSPI_STATE_POSTPROCESSING, SYMSPI_STATE_IDLE>>,
      <<SYMSPI_STATE_ERROR, SYMSPI_STATE_IDLE>> }

\* the step is a switch made by __symspi_error_handle
ErrorHandlerSwitches ==
    \E c \in Ctx : pc[c] \in {"eh_sw", "eh_x3"} /\ pc'[c] # pc[c]

\* the step is the forced switch of symspi_close
CloseSwitches == cls = "cl_cold" /\ cls' # cls

\* the step is a transition of the table
TableStep ==
    \/ <<p.state, p'.state>> \in TableTransitions
    \/ p'.state = SYMSPI_STATE_ERROR /\ ErrorHandlerSwitches
    \/ p'.state = SYMSPI_STATE_COLD /\ CloseSwitches

\* the step is the return from XFER_PREPARE to IDLE made by
\* symspi_to_idle_sequence(XFER_PREPARE, ...)
PrepareToIdle ==
    /\ \E c \in Ctx : pc[c] = "ti_cas" /\ loc[c].orig = SYMSPI_STATE_XFER_PREPARE
                      /\ pc'[c] # pc[c]
    /\ p.state = SYMSPI_STATE_XFER_PREPARE /\ p'.state = SYMSPI_STATE_IDLE

\* C32 as stated: every change of the state word is a transition of the
\* state transition table (COLD->IDLE, IDLE->XFER_PREPARE,
\* XFER_PREPARE->WAITING_PREV, WAITING_PREV->XFER, WAITING_PREV->WAITING_RDY,
\* WAITING_RDY->XFER, XFER->POSTPROCESSING, POSTPROCESSING->IDLE, to ERROR
\* by the error handler, ERROR->IDLE, to COLD by close).
C32_OnlyTableTransitions ==
    [][ StateChanges => TableStep ]_vars

\* C32: every change of the state word is a transition of the state
\* transition table or the return XFER_PREPARE->IDLE which
\* symspi_to_idle_sequence makes when the xfer was only updated or the
\* update failed.
C32_TableOrPrepareToIdle ==
    [][ StateChanges => TableStep \/ PrepareToIdle ]_vars

\* a default data update has put the state back from XFER_PREPARE to IDLE
C32_Witness ==
    /\ p.alive /\ p.state = SYMSPI_STATE_IDLE
    /\ pc["thr"] = "ti_rd" /\ loc["thr"].orig = SYMSPI_STATE_XFER_PREPARE
    /\ loc["thr"].op = "upd"

\* the recovery sequence passes the point of symspi_to_idle_sequence
\* where the next transfer is started or not
RecoveryResumes ==
    /\ pc["rec"] = "ti_clr" /\ pc'["rec"] # "ti_clr" /\ p.alive
    /\ loc["rec"].orig = SYMSPI_STATE_ERROR

\* the recovery sequence makes its switch to IDLE
RecoverySwitches ==
    /\ pc["rec"] = "ti_cas" /\ pc'["rec"] # "ti_cas" /\ p.alive
    /\ loc["rec"].orig = SYMSPI_STATE_ERROR

\* C33 as stated: a recovery which finds neither a delayed request nor
\* their flag set leaves the device in IDLE with our flag dropped and
\* starts no transfer.
C33_ResumeOnlyOnRequest ==
    [][ (RecoveryResumes /\ ~p.delayed_xfer_request /\ ~hw.their_flag)
        => /\ pc'["rec"] = "idle"
           /\ p'.state = SYMSPI_STATE_IDLE /\ ~hw'.our_flag ]_vars

\* C33: a successful recovery switches ERROR -> IDLE and then always
\* starts the next transfer with symspi_data_xchange(NULL, false), also
\* when no request is delayed and their flag is not set; only a device
\* which is closing is left alone.
C33_RecoveryAlwaysResumes ==
    [][ /\ (RecoverySwitches /\ ~symspi_is_closing)
           => p.state = SYMSPI_STATE_ERROR /\ p'.state = SYMSPI_STATE_IDLE
        /\ RecoveryResumes
           => pc'["rec"] = IF symspi_is_closing THEN "idle" ELSE "prep_cas"
      ]_vars

\* the recovery starts the next transfer though no request is delayed
\* and their flag is not set
C33_Witness ==
    /\ pc["rec"] = "prep_cas" /\ loc["rec"].orig = SYMSPI_STATE_ERROR
    /\ p.alive /\ p.state = SYMSPI_STATE_IDLE
    /\ ~p.delayed_xfer_request /\ ~hw.their_flag

\* the labels at which a context writes the current xfer, and the state
\* the context has switched to before (which makes it the owner)
OwnerState(l) ==
    CASE l = "prep_upd" -> SYMSPI_STATE_XFER_PREPARE
      [] l = "pp_cb" -> SYMSPI_STATE_POSTPROCESSING
      [] l = "rc_cb" -> SYMSPI_STATE_ERROR

\* context c writes the current xfer in this step
WritesXfer(c) ==
    /\ pc[c] \in {"prep_upd", "pp_cb", "rc_cb"} /\ pc'[c] # pc[c]
    /\ p.alive /\ p'.alive /\ p'.current_xfer # p.current_xfer

\* C34: the current xfer is written only by the context which owns the
\* state: by the caller which switched to XFER_PREPARE while the state is
\* XFER_PREPARE, by postprocessing_work while it is POSTPROCESSING, by
\* recover_work while it is ERROR; so no two contexts write it for the
\* same cycle.
C34_XferWrittenByOwner ==
    [][ \A c \in Ctx : WritesXfer(c) => p.state = OwnerState(pc[c]) ]_vars

\* the states in which the device does not wait for the other side
NotWaitingStates ==
    { SYMSPI_STATE_IDLE, SYMSPI_STATE_XFER, SYMSPI_STATE_POSTPROCESSING,
      SYMSPI_STATE_COLD }

\* symspi_wait_flag_timeout runs in this step and raises
\* SYMSPI_ERROR_WAIT_OTHER_SIDE
TimeoutRaised ==
    /\ pc["tmr"] = "idle" /\ pc'["tmr"] = "eh_sw" /\ p.alive
    /\ loc'["tmr"].err = SYMSPI_ERROR_WAIT_OTHER_SIDE

\* C35: the wait timeout timer is armed only while the device waits for
\* the other side: in IDLE, XFER, POSTPROCESSING and COLD it is not
\* armed, and SYMSPI_ERROR_WAIT_OTHER_SIDE is never raised in one of
\* these states, however the contexts interleave.
C35_TimerOnlyWhileWaiting ==
    [][ /\ (p.alive /\ p.state \in NotWaitingStates) => ~p.timer
        /\ TimeoutRaised => p.state \notin NotWaitingStates ]_vars

\* context c hands the transfer to the SPI layer in this step
Submits(c) ==
    /\ pc[c] = "do_xfer" /\ pc'[c] # "do_xfer" /\ p.alive
    /\ hw'.spi_busy > hw.spi_busy

\* symspi_spi_xfer_done_callback makes its switch in this step
CallbackSwitches ==
    pc["spi"] = "cb_cas" /\ pc'["spi"] # "cb_cas" /\ p.alive

C37_WaitingRdyOnlyMasterNoHwRdy ==
    (p.alive /\ p.state = SYMSPI_STATE_WAITING_RDY)
    => (cfg.spi_master_mode /\ ~cfg.hardware_spi_rdy)

\* the master without hardware SPI ready waits in WAITING_RDY with its
\* timer armed
C37_Witness ==
    /\ p.alive /\ p.state = SYMSPI_STATE_WAITING_RDY /\ p.timer
    /\ cfg.spi_master_mode /\ ~cfg.hardware_spi_rdy

\* context c, which has called __symspi_error_handle, finds the state
\* of the device in this step
HandlerLooks(c) == pc[c] = "eh_sw" /\ pc'[c] # "eh_sw" /\ p.alive

\* the whole effect of this step on the device is that the error was
\* counted (the record of the error and the info counters)
OnlyCounted ==
    /\ p' = [p EXCEPT !.counted = TRUE]
    /\ hw' = hw /\ cfg' = cfg /\ cls' = cls

HandlerLabels == {"eh_sw", "eh_spin", "eh_x1", "eh_x3", "eh_rec"}

\* no context is inside __symspi_error_handle
NoHandlerRuns == \A c \in Ctx : pc[c] \notin HandlerLabels

\* C40: last_error is set only from the recording of an error till the
\* end of its recovery: in IDLE, XFER_PREPARE, WAITING_PREV and
\* WAITING_RDY, with no error handler running, last_error is
\* SYMSPI_SUCCESS, so that the completion callback of a transfer without
\* error never finds an old last_error.
C40_NoStaleLastError ==
    (/\ p.alive /\ NoHandlerRuns
     /\ p.state \in { SYMSPI_STATE_IDLE, SYMSPI_STATE_XFER_PREPARE,
                      SYMSPI_STATE_WAITING_PREV, SYMSPI_STATE_WAITING_RDY })
    => p.last_error = SYMSPI_SUCCESS

(* ---------------- the error ledger: __symspi_error_report ---------- *)
\* the minimal time between two reports of one kind of error
SYMSPI_MIN_ERR_REPORT_INTERVAL_MSEC == 10000

\* the time in which the weight of the old error rate halves
SYMSPI_ERR_RATE_DECAY_RATE_MSEC_PER_HALF == 2000

\* the minimal decay, in percent
SYMSPI_ERR_RATE_DECAY_RATE_MIN == 3

\* the number of calls of __symspi_error_report in a run
MaxReports == 4

\* the kinds of error the ledger is followed for: one with an error rate
\* threshold and one without
ReportedErrors == {SYMSPI_ERROR_OTHER_SIDE, SYMSPI_ERROR_SPI}

\* what (uint32_t)(ktime_get() / 1000000) reads at a call.  The clock
\* wraps at 2^32 ms, so a call may read less than the call before it:
\* then at least 2^32 ms minus the difference have passed in between.
Msecs == {0, 920, 12000, 15000, 25000}

\* err_per_sec_threshold set by __symspi_error_report_init
ErrPerSecThreshold(err_no) ==
    IF err_no \in {SYMSPI_ERROR_OTHER_SIDE, SYMSPI_ERROR_WAIT_OTHER_SIDE}
    THEN 5 ELSE 0

\* the record of err_no after __symspi_error_report_init: memset to 0,
\* then the number of the error and its threshold
ErrorRec(err_no) ==
    [ err_num |-> err_no, total_count |-> 0, unreported_count |-> 0,
      last_report_time_msec |-> 0, last_occurence_time_msec |-> 0,
      exp_avg_interval_msec |-> 0, last_reported |-> FALSE,
      err_per_sec_threshold |-> ErrPerSecThreshold(err_no) ]

UMin(a, b) == IF a < b THEN a ELSE b

UMax(a, b) == IF a > b THEN a ELSE b

\* (now >= then) ? (now - then) : (then - now)
SinceMsec(now, then) == IF now >= then THEN now - then ELSE then - now

\* the error rate 1000 / max(exp_avg_interval_msec, 1)
ErrorRate(interval) == 1000 \div UMax(interval, 1)

\* exp_avg_interval_msec after an occurrence since_last_occurance_msec
\* after the last one
NextAvgInterval(interval, since) ==
    LET decay_percent ==
            UMax(UMin((50 * since)
                          \div SYMSPI_ERR_RATE_DECAY_RATE_MSEC_PER_HALF, 100),
                 SYMSPI_ERR_RATE_DECAY_RATE_MIN)
    IN  UMax(((100 - decay_percent) * interval + decay_percent * since)
                 \div 100, 1)

\* __symspi_error_report() for the record e at the time now_msec: the
\* record after the call; last_reported is what the call returns
symspi_error_report(e, now_msec) ==
    LET since_last_report_msec ==
            SinceMsec(now_msec, e.last_report_time_msec)
        since_last_occurance_msec ==
            SinceMsec(now_msec, e.last_occurence_time_msec)
        threshold == e.err_per_sec_threshold
        prev_rate == ErrorRate(e.exp_avg_interval_msec)
        interval == NextAvgInterval(e.exp_avg_interval_msec,
                                    since_last_occurance_msec)
        rate == ErrorRate(interval)
        e1 == [e EXCEPT !.total_count = @ + 1,
                        !.last_occurence_time_msec = now_msec,
                        !.exp_avg_interval_msec = interval]
    IN  IF since_last_report_msec < SYMSPI_MIN_ERR_REPORT_INTERVAL_MSEC
           /\ ~(prev_rate < threshold /\ rate >= threshold)
        THEN [e1 EXCEPT !.unreported_count = @ + 1, !.last_reported = FALSE]
        ELSE [e1 EXCEPT !.last_report_time_msec = now_msec,
                        !.last_reported = TRUE, !.unreported_count = 0]

\* the device after symspi_init, with the record of one kind of error
InitReport ==
    /\ cfg = [spi_master_mode |-> TRUE, hardware_spi_rdy |-> TRUE]
    /\ \E err_no \in ReportedErrors :
         p = [errors |-> ErrorRec(err_no)]
                 @@ InitPrivate("ok", SYMSPI_INIT_LEVEL_FULL)
    /\ hw = [ our_flag |-> FALSE, their_flag |-> FALSE,
              irq_pending |-> FALSE, spi_busy |-> 0 ]
    /\ pc = [ c \in Ctx |-> "idle" ]
    /\ loc = [ c \in Ctx |-> NoLoc ]
    /\ cls = "idle"
    /\ env = [Budget EXCEPT !.inits = 0]
    /\ obs = NoObs

\* an error of the kind is reported when the clock reads now_msec
ErrorReport ==
    /\ p.alive /\ p.errors.total_count < MaxReports
    /\ \E now_msec \in Msecs :
         p' = [p EXCEPT !.errors = symspi_error_report(@, now_msec)]
    /\ UNCHANGED <<cfg, hw, pc, loc, cls, env, obs>>

NextReport == ErrorReport

SpecReport == InitReport /\ [][NextReport]_vars

\* the time since the last report of the kind is less than the minimal
\* report interval: the clock has not wrapped since (else 2^32 ms minus
\* the difference of the two readings have passed, which is more than
\* the interval for every two readings of Msecs) and reads less than
\* the interval more
ReportedRecently(e, now_msec) ==
    /\ now_msec >= e.last_report_time_msec
    /\ now_msec - e.last_report_time_msec
           < SYMSPI_MIN_ERR_REPORT_INTERVAL_MSEC

\* the occurrence takes the smoothed error rate from below the threshold
\* to the threshold or above
CrossesThreshold(e, e2) ==
    /\ ErrorRate(e.exp_avg_interval_msec) < e.err_per_sec_threshold
    /\ ErrorRate(e2.exp_avg_interval_msec) >= e.err_per_sec_threshold

\* C39: a report increments the count of suppressed occurrences and
\* returns "no log" if and only if the time since the last report of the
\* kind is less than the minimal report interval and the occurrence does
\* not take the smoothed rate from below the threshold to the threshold
\* or above; otherwise it returns "logged" and the count of suppressed
\* occurrences is zero afterwards.
C39_SuppressedIffRecentAndNotCrossing ==
    [][ LET e == p.errors
            e2 == p'.errors
        IN  IF ReportedRecently(e, e2.last_occurence_time_msec)
               /\ ~CrossesThreshold(e, e2)
            THEN /\ ~e2.last_reported
                 /\ e2.unreported_count = e.unreported_count + 1
            ELSE /\ e2.last_reported
                 /\ e2.unreported_count = 0 ]_vars

====
